---- MODULE Spec2Model ----
(***************************************************************************)
(* Model of the Connect dating application (src/app.js, src/schema.sql):   *)
(* the scoring functions (conversation quality, avatar evolution,          *)
(* repetition detection) and the request handlers that store messages and  *)
(* recompute the scores of a connection.                                   *)
(*                                                                         *)
(* Numbers.  The scoring functions compute in JavaScript doubles; the      *)
(* model computes the same expressions in exact rationals (records         *)
(* [num, den] in lowest terms).  Columns declared DECIMAL(p,2) hold        *)
(* hundredths, as integers, rounded half away from zero as PostgreSQL      *)
(* rounds a numeric on assignment.                                         *)
(*                                                                         *)
(* Text.  A text is a sequence of characters, a character a one-token      *)
(* string; trim and toLowerCase are computed on the sequence.              *)
(***************************************************************************)
EXTENDS Integers, Sequences, FiniteSets, Bags, TLC

VARIABLES
    users,        \* table users: sequence of rows, id = index
    session,      \* express-session: client -> userId (0: no user)
    connections,  \* table connections: sequence of rows, id = index
    messages,     \* table messages: sequence of rows in created_at order
    reqs,         \* requests in flight: a bag of handler positions with their locals
    fcall,        \* scoring function under test and its arguments
    fret,         \* its return value(s)
    hist,         \* history of the run, kept for the properties that speak of it
    profile_views \* table profile_views: a set of rows, one per (viewer_id, viewed_id)

vars == <<users, session, connections, messages, reqs, fcall, fret, hist, profile_views>>
appVars == <<users, session, connections, messages, reqs, profile_views>>

-----------------------------------------------------------------------------
(* Bounds of the model *)

MaxUsers == 2          \* rows of table users
MaxConnections == 1    \* rows of table connections
MaxMessages == 2       \* rows of table messages under Spec
MaxThread == 7         \* rows of table messages under SpecThread
NumReqs == 2           \* requests in flight at once under Spec
MaxList == 3           \* length of a message list given to calculateConversationQuality
MaxCount == 21         \* largest message_count given to calculateAvatarEvolution
MaxPrev == 6           \* length of a prior-message list given to isRepetitiveMessage

-----------------------------------------------------------------------------
(* Exact rationals standing for JavaScript numbers *)

RECURSIVE GCD(_, _)
GCD(a, b) == IF b = 0 THEN a ELSE GCD(b, a % b)

Abs(n) == IF n < 0 THEN -n ELSE n

\* Math.min, Math.max on integers
Min2(a, b) == IF a <= b THEN a ELSE b
Max2(a, b) == IF a >= b THEN a ELSE b

Rat(n, d) ==
    LET g == GCD(Abs(n), d)
    IN  [num |-> n \div g, den |-> d \div g]

Zero == Rat(0, 1)
One == Rat(1, 1)

RatLE(a, b) == a.num * b.den <= b.num * a.den
RatLT(a, b) == a.num * b.den < b.num * a.den
RatAdd(a, b) == Rat(a.num * b.den + b.num * a.den, a.den * b.den)
RatMul(a, b) == Rat(a.num * b.num, a.den * b.den)
RatDivInt(a, n) == Rat(a.num, a.den * n)
RatMin(a, b) == IF RatLE(a, b) THEN a ELSE b
RatMax(a, b) == IF RatLE(a, b) THEN b ELSE a

\* Assignment of a non-negative number to a DECIMAL(p,2) column, in hundredths.
ToDecimal2(r) == (2 * 100 * r.num + r.den) \div (2 * r.den)

\* A DECIMAL(p,2) column value read back as a number.
FromDecimal2(h) == Rat(h, 100)

-----------------------------------------------------------------------------
(* Strings *)

UpperChars == <<"A", "B", "C", "D", "E", "F", "G", "H", "I", "J", "K", "L", "M",
                "N", "O", "P", "Q", "R", "S", "T", "U", "V", "W", "X", "Y", "Z">>
LowerChars == <<"a", "b", "c", "d", "e", "f", "g", "h", "i", "j", "k", "l", "m",
                "n", "o", "p", "q", "r", "s", "t", "u", "v", "w", "x", "y", "z">>

WhiteSpace == {" ", "\t", "\n"}

UpperSet == {UpperChars[i] : i \in 1..Len(UpperChars)}

LowerChar(c) ==
    IF c \in UpperSet
    THEN LowerChars[CHOOSE i \in 1..Len(UpperChars) : UpperChars[i] = c]
    ELSE c

\* String.prototype.toLowerCase
toLowerCase(s) == [i \in 1..Len(s) |-> LowerChar(s[i])]

\* String.prototype.trim
RECURSIVE trimStart(_)
trimStart(s) ==
    IF s = <<>> \/ Head(s) \notin WhiteSpace THEN s ELSE trimStart(Tail(s))

RECURSIVE trimEnd(_)
trimEnd(s) ==
    IF s = <<>> \/ s[Len(s)] \notin WhiteSpace THEN s
    ELSE trimEnd(SubSeq(s, 1, Len(s) - 1))

trim(s) == trimEnd(trimStart(s))

\* String.prototype.substring(0, n)
substring0(s, n) == IF Len(s) <= n THEN s ELSE SubSeq(s, 1, n)

\* String.prototype.replace(/[<>]/g, "")
stripAngles(s) == SelectSeq(s, LAMBDA ch : ch \notin {"<", ">"})

StringMax == 255

\* String(str).trim().substring(0, 255).replace(/[<>]/g, "")
sanitizeString(str) == stripAngles(substring0(trim(str), StringMax))

LongTextMax == 500

sanitizeLongText(str) == stripAngles(substring0(trim(str), LongTextMax))

\* n copies of the character c
Rep(c, n) == [i \in 1..n |-> c]

-----------------------------------------------------------------------------
(* JavaScript objects: a record; a missing property is a missing field *)

Has(obj, f) == f \in DOMAIN obj

\* obj.f || 0
NumberOr0(obj, f) == IF Has(obj, f) THEN obj[f] ELSE 0

\* obj.f || false
FlagOrFalse(obj, f) == IF Has(obj, f) THEN obj[f] ELSE FALSE

-----------------------------------------------------------------------------
(* Scoring functions *)

MinValidLength == 20
LengthDivisor == 100

\* QualityStep with "length >= 20" for "length > 20"
QualityStep_Inclusive(acc, msg) ==
    LET length == NumberOr0(msg, "message_length")
        isRepetitive == FlagOrFalse(msg, "is_repetitive")
    IN  IF ~isRepetitive /\ length >= MinValidLength
        THEN LET lengthScore == RatMin(Rat(length, LengthDivisor), Rat(1, 2))
             IN  [totalScore |-> RatAdd(acc.totalScore, lengthScore),
                  validMessages |-> acc.validMessages + 1]
        ELSE acc

\* QualityStep taking a message without is_repetitive for a repetitive one
QualityStep_MissingFlagRepetitive(acc, msg) ==
    LET length == NumberOr0(msg, "message_length")
        isRepetitive == IF Has(msg, "is_repetitive") THEN msg.is_repetitive ELSE TRUE
    IN  IF ~isRepetitive /\ length > MinValidLength
        THEN LET lengthScore == RatMin(Rat(length, LengthDivisor), Rat(1, 2))
             IN  [totalScore |-> RatAdd(acc.totalScore, lengthScore),
                  validMessages |-> acc.validMessages + 1]
        ELSE acc

\* the forEach body of calculateConversationQuality: acc = [totalScore, validMessages]
QualityStep(acc, msg) ==
    LET length == NumberOr0(msg, "message_length")
        isRepetitive == FlagOrFalse(msg, "is_repetitive")
    IN  IF ~isRepetitive /\ length > MinValidLength
        THEN LET lengthScore == RatMin(Rat(length, LengthDivisor), Rat(1, 2))
             IN  [totalScore |-> RatAdd(acc.totalScore, lengthScore),
                  validMessages |-> acc.validMessages + 1]
        ELSE acc

RECURSIVE QualityLoop(_, _)
QualityLoop(acc, msgs) ==
    IF msgs = <<>> THEN acc
    ELSE QualityLoop(QualityStep(acc, Head(msgs)), Tail(msgs))

RECURSIVE RawTotal(_)
RawTotal(msgs) ==
    IF msgs = <<>> THEN Zero
    ELSE LET length == NumberOr0(Head(msgs), "message_length")
         IN  IF ~FlagOrFalse(Head(msgs), "is_repetitive") /\ length > MinValidLength
             THEN RatAdd(Rat(length, LengthDivisor), RawTotal(Tail(msgs)))
             ELSE RawTotal(Tail(msgs))

\* calculateConversationQuality without its two Math.min
calculateConversationQuality_Unclamped(msgs) ==
    LET acc == QualityLoop([totalScore |-> Zero, validMessages |-> 0], msgs)
    IN  IF acc.validMessages = 0 THEN Zero
        ELSE RatMul(RatDivInt(RawTotal(msgs), acc.validMessages), Rat(2, 1))

calculateConversationQuality(msgs) ==
    IF Len(msgs) = 0 THEN Zero
    ELSE LET acc == QualityLoop([totalScore |-> Zero, validMessages |-> 0], msgs)
         IN  IF acc.validMessages = 0 THEN Zero
             ELSE RatMin(RatMul(RatDivInt(acc.totalScore, acc.validMessages),
                                Rat(2, 1)), One)

VolumeFull == 20

\* calculateAvatarEvolution with balance in the place of volumeScore
calculateAvatarEvolution_Balance(connection) ==
    LET baseQuality == IF Has(connection, "conversation_quality_score")
                       THEN connection.conversation_quality_score ELSE Zero
        balance == IF Has(connection, "message_count") /\ connection.message_count > 0
                   THEN Rat(1, 2) ELSE Zero
    IN  RatMin(RatAdd(RatMul(baseQuality, Rat(7, 10)), RatMul(balance, Rat(3, 10))), One)

\* calculateAvatarEvolution without its two Math.min
calculateAvatarEvolution_NoClamp(connection) ==
    LET baseQuality == IF Has(connection, "conversation_quality_score")
                       THEN connection.conversation_quality_score ELSE Zero
        messageCount == NumberOr0(connection, "message_count")
    IN  RatAdd(RatMul(baseQuality, Rat(7, 10)),
               RatMul(Rat(messageCount, VolumeFull), Rat(3, 10)))

calculateAvatarEvolution(connection) ==
    LET baseQuality == IF Has(connection, "conversation_quality_score")
                       THEN connection.conversation_quality_score ELSE Zero
        messageCount == NumberOr0(connection, "message_count")
        balance == IF Has(connection, "message_count") /\ connection.message_count > 0
                   THEN Rat(1, 2) ELSE Zero
        qualityWeight == Rat(7, 10)
        volumeWeight == Rat(3, 10)
        volumeScore == RatMin(Rat(messageCount, VolumeFull), One)
    IN  RatMin(RatAdd(RatMul(baseQuality, qualityWeight),
                      RatMul(volumeScore, volumeWeight)), One)

RecentWindow == 5
ShortLength == 10
MinHistory == 2

\* Array.prototype.slice(-n)
sliceLast(s, n) == IF Len(s) <= n THEN s ELSE SubSeq(s, Len(s) - n + 1, Len(s))

lowEffortPatterns ==
    { <<"h", "i">>, <<"h", "e", "y">>, <<"h", "e", "l", "l", "o">>,
      <<"s", "u", "p">>, <<"y", "o">>,
      <<"o", "k">>, <<"o", "k", "a", "y">>, <<"k">>, <<"y", "e", "p">>,
      <<"y", "e", "a", "h">>,
      <<"?">>, <<"?", "!">> }

\* isRepetitiveMessage without the test for fewer than 2 previous messages
isRepetitiveMessage_NoHistoryCheck(messageText, previousMessages) ==
    LET recentMessages == sliceLast(previousMessages, RecentWindow)
        lowerText == trim(toLowerCase(messageText))
        exactDupes == {i \in 1..Len(recentMessages) :
                         trim(toLowerCase(recentMessages[i].message_text)) = lowerText}
    IN  IF Len(trim(messageText)) < ShortLength THEN TRUE
        ELSE IF lowerText \in lowEffortPatterns THEN TRUE
        ELSE exactDupes # {}

\* isRepetitiveMessage measuring the text before it is trimmed
isRepetitiveMessage_RawLength(messageText, previousMessages) ==
    IF Len(previousMessages) < MinHistory THEN FALSE
    ELSE LET recentMessages == sliceLast(previousMessages, RecentWindow)
             lowerText == trim(toLowerCase(messageText))
             exactDupes == {i \in 1..Len(recentMessages) :
                              trim(toLowerCase(recentMessages[i].message_text)) = lowerText}
         IN  IF Len(messageText) < ShortLength THEN TRUE
             ELSE IF lowerText \in lowEffortPatterns THEN TRUE
             ELSE exactDupes # {}

\* isRepetitiveMessage comparing with every previous message, not the last 5
isRepetitiveMessage_WholeHistory(messageText, previousMessages) ==
    IF Len(previousMessages) < MinHistory THEN FALSE
    ELSE LET lowerText == trim(toLowerCase(messageText))
             exactDupes == {i \in 1..Len(previousMessages) :
                              trim(toLowerCase(previousMessages[i].message_text)) = lowerText}
         IN  IF Len(trim(messageText)) < ShortLength THEN TRUE
             ELSE IF lowerText \in lowEffortPatterns THEN TRUE
             ELSE exactDupes # {}

isRepetitiveMessage(messageText, previousMessages) ==
    IF Len(previousMessages) < MinHistory THEN FALSE
    ELSE LET recentMessages == sliceLast(previousMessages, RecentWindow)
             lowerText == trim(toLowerCase(messageText))
             exactDupes == {i \in 1..Len(recentMessages) :
                              trim(toLowerCase(recentMessages[i].message_text)) = lowerText}
         IN  IF Len(trim(messageText)) < ShortLength THEN TRUE
             ELSE IF lowerText \in lowEffortPatterns THEN TRUE
             ELSE exactDupes # {}

-----------------------------------------------------------------------------
(* Presentation: the tests the page templates make on an evolution value *)

\* value > 0.3 with ">= 0.3" in its place
avatarEvolved_Inclusive(value) == RatLE(Rat(3, 10), value)

\* ${value > 0.3 ? ' evolved' : ''} and ${value > 0.3 ? glyph : 'o'}
avatarEvolved(value) == RatLT(Rat(3, 10), value)

\* ${connection.mutual_avatar_evolution > 0.5 ? "Your connection is deepening ..." : ""}
connectionDeepening(value) == RatLT(Rat(1, 2), value)

-----------------------------------------------------------------------------
(* Initial database and idle request slots *)

Clients == 1..MaxUsers

\* History variable.  A specification chooses in its initial state which
\* facts of the run it records (the fields of hist); a handler step notes a
\* fact only when the field is there, so that a specification that records
\* nothing has the states of the program alone.
NoHistory == [none |-> TRUE]
Records(f) == f \in DOMAIN hist
Note(h, f, v) == IF f \in DOMAIN h THEN [h EXCEPT ![f] = v] ELSE h

\* fresh: the connections of which a view began after their latest message
\*        was stored
\* now:   the connection of the view in progress (one request at a time)
\* last:  the user and connection of the view that completed last, no message
\*        stored since, and how many such views in a row (up to 2)
\* low:   per connection, the user whose view completed last and whether
\*        messages were stored since, all of them flagged repetitive or of 20
\*        characters or fewer (viewer 0: no view yet, or another message since)
\* out:   the clients that logged out and whose session has had no user since
\* opened:  the pairs <<viewer, user>> of the profiles opened with /profile
\* skipped: the pairs <<viewer, user>> of the profiles skipped with /skip-profile
\* failed:  per connection, how many UPDATEs of message_count failed
\* atStart: mutual_avatar_evolution of the connection, as stored when the view
\*          in progress began (one request at a time)
\* page:    the conversation page rendered last and for whom
NoView == [user |-> 0, conn |-> 0, times |-> 0]
NoLow == [viewer |-> 0, sent |-> FALSE]

NoPage == [user |-> 0, evolved |-> FALSE, deepening |-> FALSE]

NoteViewBegan(k) ==
    LET h1 == IF Records("fresh") THEN Note(hist, "fresh", hist.fresh \cup {k}) ELSE hist
        h2 == Note(h1, "atStart", connections[k].mutual_avatar_evolution)
    IN  Note(h2, "now", k)

NoteViewDone(u) ==
    LET h1 == IF Records("last") /\ Records("now")
              THEN Note(hist, "last",
                        IF hist.last.user = u /\ hist.last.conn = hist.now
                        THEN [hist.last EXCEPT !.times = 2]
                        ELSE [user |-> u, conn |-> hist.now, times |-> 1])
              ELSE hist
    IN  IF Records("low") /\ Records("now")
        THEN Note(h1, "low", [hist.low EXCEPT ![hist.now] = [viewer |-> u, sent |-> FALSE]])
        ELSE h1

NoteSession(c, userId) ==
    IF Records("out")
    THEN Note(hist, "out", IF userId = 0 THEN hist.out \cup {c} ELSE hist.out \ {c})
    ELSE hist

NoteOpened(viewer, u) ==
    IF Records("opened") THEN Note(hist, "opened", hist.opened \cup {<<viewer, u>>}) ELSE hist

NoteSkipped(viewer, userId) ==
    IF Records("skipped")
    THEN Note(hist, "skipped", hist.skipped \cup {<<viewer, u>> : u \in userId})
    ELSE hist

NoteFailed(k) ==
    IF Records("failed")
    THEN Note(hist, "failed", [hist.failed EXCEPT ![k] = @ + 1])
    ELSE hist

NoteStored(k, lowEffort) ==
    LET h1 == IF Records("fresh") THEN Note(hist, "fresh", hist.fresh \ {k}) ELSE hist
        h2 == Note(h1, "last", NoView)
    IN  IF Records("low")
        THEN Note(h2, "low", [hist.low EXCEPT ![k] =
                                 IF @.viewer # 0 /\ lowEffort
                                 THEN [@ EXCEPT !.sent = TRUE] ELSE NoLow])
        ELSE h2

InitApp ==
    /\ users = <<>>
    /\ session = [c \in Clients |-> 0]
    /\ connections = <<>>
    /\ messages = <<>>
    /\ reqs = EmptyBag
    /\ profile_views = {}
    /\ hist = NoHistory

NoCall == [fn |-> "none"]

-----------------------------------------------------------------------------
(* Request inputs *)

\* NULL in a text column; an INTEGER column holds a set of at most one number,
\* the empty set for NULL
NULL == <<"NULL">>
NullInt == {}

EmailA == <<"a", "@", "b", ".", "c">>
EmailAUpper == <<"A", "@", "B", ".", "c">>
EmailZ == <<"z", "@", "b", ".", "c">>
EmailY == <<"y", "@", "b", ".", "c">>
EmailBad == <<"a", "@", "b">>
\* the addresses typed at each client; the clients are numbered in the order
\* in which they first register
EmailsOf(c) == IF c = 1 THEN {EmailA, EmailAUpper, EmailBad} ELSE {EmailZ}
MayRegister(c) == \A b \in 1..(c - 1) : session[b] # 0

PassGood == Rep("p", 8)
PassShort == Rep("p", 7)
Passwords == {PassGood, PassShort}

AnswerGood == <<"i", " ", "g", "o", " ", "t", "o", "o", " ", "q", "u", "i", "e", "t">>
AnswerShort == <<"q", "u", "i", "e", "t">>
AnswerEmoji == AnswerGood \o <<" ", "U+1F600">>
AnswerLate == <<"i", " ", "a", "m", " ", "o", "f", "t", "e", "n", " ", "l", "a", "t", "e">>
Answers == {AnswerGood, AnswerShort, AnswerEmoji}

\* texts
TextOk == <<"o", "k">>
TextOkPadded == <<" ", "O", "K", "\n">>
TextHello == <<"H", "e", "l", "l", "o">>
TextNine == Rep("c", 9)
TextTen == Rep("c", 10)
TextNinePadded == <<" ">> \o Rep("d", 9) \o <<" ">>
TextA == Rep("a", 12)
TextAShout == <<" ">> \o Rep("A", 12) \o <<" ">>
TextB == Rep("b", 12)

\* message bodies as posted: 50 characters; 21 characters inside blanks and
\* angle brackets; a blank
Body50 == Rep("a", 50)
Body21 == <<" ", "<">> \o Rep("b", 21) \o <<">", "\n">>
BodyBlank == <<" ">>
Bodies == {Body50, Body21, BodyBlank}

-----------------------------------------------------------------------------
(* Validation helpers *)

PasswordMin == 8
PasswordMax == 255
EmailMax == 255

\* /^[^\s@]+@[^\s@]+\.[^\s@]+$/ on the lower-cased email, and length <= 255
validateEmail(email) ==
    LET e == toLowerCase(email)
        ats == {i \in 1..Len(e) : e[i] = "@"}
    IN  /\ \A i \in 1..Len(e) : e[i] \notin WhiteSpace
        /\ Cardinality(ats) = 1
        /\ \E a \in ats :
              /\ a > 1
              /\ \E d \in (a + 2)..(Len(e) - 1) : e[d] = "."
        /\ Len(email) <= EmailMax

validatePassword(password) ==
    Len(password) >= PasswordMin /\ Len(password) <= PasswordMax

\* bcrypt.hash / bcrypt.compare: the hash of a password matches that password only
bcryptHash(password) == [bcrypt |-> password]

\* answer.split(/\s+/).filter(w => w.length > 0).length
WordCount(s) ==
    Cardinality({i \in 1..Len(s) :
                    s[i] \notin WhiteSpace /\ (i = 1 \/ s[i - 1] \in WhiteSpace)})

MinWords == 4

\* /[\u{1F300}-\u{1F9FF}]/gu
emojiRegex(s) == \E i \in 1..Len(s) : s[i] \in {"U+1F300", "U+1F600", "U+1F9FF"}

-----------------------------------------------------------------------------
(* Middleware *)

\* isAuthenticated: the session carries a user
isAuthenticated(c) == session[c] # 0

\* isOnboardingComplete passing every logged-in user
isOnboardingComplete_AuthOnly(c) ==
    /\ session[c] # 0
    /\ session[c] \in 1..Len(users)

\* isOnboardingComplete: the session's user exists and has completed onboarding
isOnboardingComplete(c) ==
    /\ session[c] # 0
    /\ session[c] \in 1..Len(users)
    /\ users[session[c]].onboarding_complete

\* the requests in flight, and how many of them are at one of the positions pcs
Requests == BagToSet(reqs)
InFlight(pcs) ==
    BagCardinality([q \in {q \in Requests : q.pc \in pcs} |-> CopiesIn(q, reqs)])

\* a request arrives, moves on, is answered
CanAdmit == BagCardinality(reqs) < NumReqs
Admit(rec) == reqs' = reqs (+) SetToBag({rec})
Goto(r, rec) == reqs' = (reqs (-) SetToBag({r})) (+) SetToBag({rec})
Finish(r) == reqs' = reqs (-) SetToBag({r})

\* a response that redirects, on its way to the client
Redirect(c, route, status, location) ==
    [pc |-> "respond", client |-> c, route |-> route,
     status |-> status, location |-> location]

Respond(r) ==
    /\ r.pc = "respond"
    /\ Finish(r)
    /\ UNCHANGED <<users, session, connections, messages, fcall, fret, hist, profile_views>>

\* the routes behind isAuthenticated and isOnboardingComplete
GatedRoutes == {"GET /profile", "GET /start-conversation",
                "GET /connection", "POST /connection/message"}

\* a request to a gated route that the middleware answers: 401 and /login
\* without a session user, /onboarding/step-1 with one that has not completed
GateRefuse(c, route) ==
    /\ CanAdmit
    /\ fcall = NoCall
    /\ ~isOnboardingComplete(c)
    /\ Admit(IF ~isAuthenticated(c)
             THEN Redirect(c, route, 401, [path |-> "/login"])
             ELSE Redirect(c, route, 302, [path |-> "/onboarding/step-1"]))
    /\ UNCHANGED <<users, session, connections, messages, fcall, fret, hist, profile_views>>

-----------------------------------------------------------------------------
(* POST /register *)

\* validation, then SELECT 1 FROM users WHERE email = lower(email)
RegisterBegin(c, email, password, password_confirm) ==
    /\ CanAdmit
    /\ fcall = NoCall
    /\ MayRegister(c)
    /\ validateEmail(email)
    /\ validatePassword(password)
    /\ password = password_confirm
    /\ ~\E u \in 1..Len(users) : users[u].email = toLowerCase(email)
    /\ Cardinality({users[u].email : u \in 1..Len(users)}
                   \cup {q.email : q \in {q \in Requests : q.pc = "registerInsert"}}
                   \cup {toLowerCase(email)}) <= MaxUsers
    /\ Admit([pc |-> "registerInsert", client |-> c,
                email |-> toLowerCase(email), hash |-> bcryptHash(password)])
    /\ UNCHANGED <<users, session, connections, messages, fcall, fret, hist, profile_views>>

\* RegisterInsert on a table users whose email column is not UNIQUE
RegisterInsert_NoUnique(r) ==
    /\ r.pc = "registerInsert"
    /\ users' = Append(users,
          [email |-> r.email,
           password_hash |-> r.hash,
           name |-> NULL,
           age |-> NullInt,
           gender |-> NULL,
           imperfection_1 |-> NULL,
           imperfection_2 |-> NULL,
           onboarding_complete |-> FALSE,
           avatar_evolution |-> 0,
           active |-> TRUE])
    /\ session' = [session EXCEPT ![r.client] = Len(users) + 1]
    /\ Finish(r)
    /\ UNCHANGED <<connections, messages, fcall, fret, hist, profile_views>>

\* INSERT INTO users; email is UNIQUE: a duplicate makes the statement fail
RegisterInsert(r) ==
    /\ r.pc = "registerInsert"
    /\ IF \E u \in 1..Len(users) : users[u].email = r.email
       THEN UNCHANGED <<users, session, hist>>
       ELSE /\ hist' = NoteSession(r.client, Len(users) + 1)
            /\ users' = Append(users,
                  [email |-> r.email,
                   password_hash |-> r.hash,
                   name |-> NULL,
                   age |-> NullInt,
                   gender |-> NULL,
                   imperfection_1 |-> NULL,
                   imperfection_2 |-> NULL,
                   onboarding_complete |-> FALSE,
                   avatar_evolution |-> 0,
                   active |-> TRUE])
            /\ session' = [session EXCEPT ![r.client] = Len(users) + 1]
    /\ Finish(r)
    /\ UNCHANGED <<connections, messages, fcall, fret, profile_views>>

-----------------------------------------------------------------------------
(* POST /login, GET /logout *)

\* validation, then SELECT * FROM users WHERE email = lower(email)
LoginBegin(c, email, password) ==
    /\ CanAdmit
    /\ fcall = NoCall
    /\ Len(email) # 0 /\ Len(password) # 0
    /\ validateEmail(email)
    /\ \E u \in 1..Len(users) :
          /\ users[u].email = toLowerCase(email)
          /\ Admit([pc |-> "loginCompare", client |-> c, id |-> u,
                    password_hash |-> users[u].password_hash,
                    password |-> password])
    /\ UNCHANGED <<users, session, connections, messages, fcall, fret, hist, profile_views>>

\* LoginCompare taking every password for the right one
LoginCompare_AnyPassword(r) ==
    /\ r.pc = "loginCompare"
    /\ session' = [session EXCEPT ![r.client] = r.id]
    /\ hist' = NoteSession(r.client, r.id)
    /\ Finish(r)
    /\ UNCHANGED <<users, connections, messages, fcall, fret, profile_views>>

\* bcrypt.compare(password, user.password_hash), then req.session.userId = user.id
LoginCompare(r) ==
    /\ r.pc = "loginCompare"
    /\ IF bcryptHash(r.password) = r.password_hash
       THEN /\ session' = [session EXCEPT ![r.client] = r.id]
            /\ hist' = NoteSession(r.client, r.id)
       ELSE UNCHANGED <<session, hist>>
    /\ Finish(r)
    /\ UNCHANGED <<users, connections, messages, fcall, fret, profile_views>>

\* req.session.destroy
Logout(c) ==
    /\ fcall = NoCall
    /\ session' = [session EXCEPT ![c] = 0]
    /\ hist' = NoteSession(c, 0)
    /\ UNCHANGED <<users, connections, messages, reqs, fcall, fret, profile_views>>

-----------------------------------------------------------------------------
(* POST /onboarding/step-1, step-2, step-3 *)

\* the result of parseInt: a set holding the number read, empty for NaN
NaN == {}
isNaN(x) == x = NaN
Digits == <<"0", "1", "2", "3", "4", "5", "6", "7", "8", "9">>
DigitSet == {Digits[i] : i \in 1..Len(Digits)}
DigitValue(ch) == (CHOOSE i \in 1..Len(Digits) : Digits[i] = ch) - 1

RECURSIVE DigitsValue(_, _)
\* the number read from the leading digits of s, after the digits read as acc
DigitsValue(acc, s) ==
    IF s = <<>> \/ Head(s) \notin DigitSet THEN acc
    ELSE DigitsValue(10 * acc + DigitValue(Head(s)), Tail(s))

\* parseInt(str, 10): blanks, a sign, the leading digits; NaN without a digit
parseInt10(str) ==
    LET t == trimStart(str)
        signed == t # <<>> /\ Head(t) \in {"-", "+"}
        body == IF signed THEN Tail(t) ELSE t
    IN  IF body = <<>> \/ Head(body) \notin DigitSet THEN NaN
        ELSE IF signed /\ Head(t) = "-" THEN {0 - DigitsValue(0, body)}
        ELSE {DigitsValue(0, body)}

NameMin == 2
AgeMin == 18
AgeMax == 120

OnboardingStep1(c, name, age) ==
    /\ fcall = NoCall
    /\ isAuthenticated(c)
    /\ Len(name) # 0 /\ Len(age) # 0
    /\ LET sanitizedName == sanitizeString(name)
           ageNum == parseInt10(age)
       IN  /\ ~(Len(sanitizedName) < NameMin)
           /\ ~isNaN(ageNum)
           /\ \A n \in ageNum : ~(n < AgeMin \/ n > AgeMax)
           /\ users' = [users EXCEPT ![session[c]] =
                           [@ EXCEPT !.name = sanitizedName, !.age = ageNum]]
    /\ UNCHANGED <<session, connections, messages, reqs, fcall, fret, hist, profile_views>>

OnboardingStep2(c, gender) ==
    /\ fcall = NoCall
    /\ isAuthenticated(c)
    /\ Len(gender) # 0
    /\ Len(sanitizeString(gender)) # 0
    /\ users' = [users EXCEPT ![session[c]] =
                    [@ EXCEPT !.gender = sanitizeString(gender)]]
    /\ UNCHANGED <<session, connections, messages, reqs, fcall, fret, hist, profile_views>>

OnboardingStep3(c, imperfection_1) ==
    /\ fcall = NoCall
    /\ isAuthenticated(c)
    /\ LET answer == sanitizeLongText(imperfection_1)
       IN  /\ Len(answer) # 0
           /\ ~emojiRegex(answer)
           /\ WordCount(answer) >= MinWords
           /\ users' = [users EXCEPT ![session[c]] =
                           [@ EXCEPT !.imperfection_1 = answer]]
    /\ UNCHANGED <<session, connections, messages, reqs, fcall, fret, hist, profile_views>>

-----------------------------------------------------------------------------
(* POST /onboarding/step-4 *)

OnboardingStep4(c, imperfection_2) ==
    /\ fcall = NoCall
    /\ isAuthenticated(c)
    /\ LET answer == sanitizeLongText(imperfection_2)
       IN  /\ Len(answer) # 0
           /\ ~emojiRegex(answer)
           /\ WordCount(answer) >= MinWords
           /\ users' = [users EXCEPT ![session[c]] =
                           [@ EXCEPT !.imperfection_2 = answer,
                                     !.onboarding_complete = TRUE]]
    /\ UNCHANGED <<session, connections, messages, reqs, fcall, fret, hist, profile_views>>

-----------------------------------------------------------------------------
(* GET /profile/:userId *)

\* middleware, getCurrentUser, SELECT the profile WHERE onboarding_complete,
\* INSERT INTO profile_views ... ON CONFLICT DO NOTHING.  (The rows read are
\* never deleted and onboarding_complete never returns to false.)
ProfileView(c, profileUserId) ==
    /\ fcall = NoCall
    /\ isOnboardingComplete(c)
    /\ profileUserId # session[c]
    /\ profileUserId \in 1..Len(users)
    /\ users[profileUserId].onboarding_complete
    /\ profile_views' =
          IF \E v \in profile_views :
                 v.viewer_id = session[c] /\ v.viewed_id = profileUserId
          THEN profile_views
          ELSE profile_views \cup {[viewer_id |-> session[c],
                                    viewed_id |-> profileUserId,
                                    conversation_initiated |-> FALSE]}
    /\ hist' = NoteOpened(session[c], profileUserId)
    /\ UNCHANGED <<users, session, connections, messages, reqs, fcall, fret>>

\* the user's own profile: 400; no such completed profile: 404; redirect to /
ProfileRefuse(c, profileUserId) ==
    /\ CanAdmit
    /\ fcall = NoCall
    /\ isOnboardingComplete(c)
    /\ \/ /\ profileUserId = session[c]
          /\ Admit(Redirect(c, "GET /profile", 400, [path |-> "/"]))
       \/ /\ profileUserId # session[c]
          /\ ~(profileUserId \in 1..Len(users) /\ users[profileUserId].onboarding_complete)
          /\ Admit(Redirect(c, "GET /profile", 404, [path |-> "/"]))
    /\ UNCHANGED <<users, session, connections, messages, fcall, fret, hist, profile_views>>

-----------------------------------------------------------------------------
(* GET / and getNextProfileToView *)

\* NextProfileRows without the NOT EXISTS on profile_views
NextProfileRows_Viewed(viewerId) ==
    {u \in 1..Len(users) :
        /\ u # viewerId
        /\ users[u].onboarding_complete = TRUE
        /\ users[u].active = TRUE
        /\ ~\E k \in 1..Len(connections) :
              \/ connections[k].user1_id = viewerId /\ connections[k].user2_id = u
              \/ connections[k].user1_id = u /\ connections[k].user2_id = viewerId}

\* the ids of the rows that the SELECT matches, before ORDER BY and LIMIT
NextProfileRows(viewerId) ==
    {u \in 1..Len(users) :
        /\ u # viewerId
        /\ users[u].onboarding_complete = TRUE
        /\ users[u].active = TRUE
        /\ ~\E pv \in profile_views :
              pv.viewer_id = viewerId /\ pv.viewed_id = u
        /\ ~\E k \in 1..Len(connections) :
              \/ connections[k].user1_id = viewerId /\ connections[k].user2_id = u
              \/ connections[k].user1_id = u /\ connections[k].user2_id = viewerId}

\* ORDER BY RANDOM() LIMIT 1 and result.rows[0] || null: the results the query
\* can give, each a set of at most one user id (empty for null)
getNextProfileToView(viewerId) ==
    IF NextProfileRows(viewerId) = {} THEN {{}}
    ELSE {{u} : u \in NextProfileRows(viewerId)}

\* middleware, getCurrentUser, the SELECT of the conversations (which the
\* page lists), getNextProfileToView, the page on its way to the client
Home(c) ==
    /\ CanAdmit
    /\ fcall = NoCall
    /\ isOnboardingComplete(c)
    /\ \E nextProfile \in getNextProfileToView(session[c]) :
          Admit([pc |-> "respond", client |-> c, route |-> "GET /",
                 status |-> 200, viewer |-> session[c],
                 nextProfile |-> nextProfile])
    /\ UNCHANGED <<users, session, connections, messages, fcall, fret, hist, profile_views>>

-----------------------------------------------------------------------------
(* GET /skip-profile/:userId *)

\* SkipProfile storing a profile view of the skipped user
SkipProfile_RecordsView(c, userId) ==
    /\ CanAdmit
    /\ fcall = NoCall
    /\ isOnboardingComplete(c)
    /\ LET profileUserId == parseInt10(userId)
       IN  /\ Admit(Redirect(c, "GET /skip-profile",
                             IF isNaN(profileUserId) THEN 400 ELSE 302,
                             [path |-> "/"]))
           /\ profile_views' = profile_views \cup
                 {[viewer_id |-> session[c], viewed_id |-> u,
                   conversation_initiated |-> FALSE] :
                     u \in {u \in profileUserId :
                               ~\E v \in profile_views :
                                   v.viewer_id = session[c] /\ v.viewed_id = u}}
           /\ hist' = NoteSkipped(session[c], profileUserId)
    /\ UNCHANGED <<users, session, connections, messages, fcall, fret>>

\* middleware, parseInt: 400 for NaN; a redirect to / either way
SkipProfile(c, userId) ==
    /\ CanAdmit
    /\ fcall = NoCall
    /\ isOnboardingComplete(c)
    /\ LET profileUserId == parseInt10(userId)
       IN  /\ Admit(Redirect(c, "GET /skip-profile",
                             IF isNaN(profileUserId) THEN 400 ELSE 302,
                             [path |-> "/"]))
           /\ hist' = NoteSkipped(session[c], profileUserId)
    /\ UNCHANGED <<users, session, connections, messages, fcall, fret, profile_views>>

-----------------------------------------------------------------------------
(* GET /start-conversation/:userId *)

ConnectionBetween(a, b) ==
    {k \in 1..Len(connections) :
        \/ connections[k].user1_id = a /\ connections[k].user2_id = b
        \/ connections[k].user1_id = b /\ connections[k].user2_id = a}

\* middleware, getCurrentUser, SELECT the existing connection
StartBegin(c, otherUserId, cap) ==
    /\ CanAdmit
    /\ fcall = NoCall
    /\ isOnboardingComplete(c)
    /\ otherUserId # session[c]
    /\ IF ConnectionBetween(session[c], otherUserId) # {}
       THEN UNCHANGED reqs
       ELSE /\ Cardinality(
                   {<<connections[k].user1_id, connections[k].user2_id>> :
                        k \in 1..Len(connections)}
                   \cup {<<q.user1Id, q.user2Id>> :
                            q \in {q \in Requests : q.pc = "startInsert"}}
                   \cup {<<Min2(session[c], otherUserId), Max2(session[c], otherUserId)>>})
                 <= cap
            /\ Admit([pc |-> "startInsert",
                     user |-> session[c], otherUserId |-> otherUserId,
                     user1Id |-> Min2(session[c], otherUserId),
                     user2Id |-> Max2(session[c], otherUserId)])
    /\ UNCHANGED <<users, session, connections, messages, fcall, fret, hist, profile_views>>

\* the user's own id: 400 and a redirect to /
StartRefuse(c, otherUserId) ==
    /\ CanAdmit
    /\ fcall = NoCall
    /\ isOnboardingComplete(c)
    /\ otherUserId = session[c]
    /\ Admit(Redirect(c, "GET /start-conversation", 400, [path |-> "/"]))
    /\ UNCHANGED <<users, session, connections, messages, fcall, fret, hist, profile_views>>

\* StartInsert on a table without UNIQUE(user1_id, user2_id)
StartInsert_NoUnique(r) ==
    /\ r.pc = "startInsert"
    /\ LET a == r.user1Id
           b == r.user2Id
       IN  IF \/ a \notin 1..Len(users) \/ b \notin 1..Len(users)
              \/ ~(a < b)
           THEN /\ UNCHANGED connections
                /\ Finish(r)
           ELSE /\ connections' = Append(connections,
                      [user1_id |-> a, user2_id |-> b,
                       connection_state |-> "exploring",
                       conversation_quality_score |-> 0,
                       message_count |-> 0,
                       mutual_avatar_evolution |-> 0])
                /\ Goto(r, [pc |-> "startViews", user |-> r.user,
                            otherUserId |-> r.otherUserId])
    /\ UNCHANGED <<users, session, messages, fcall, fret, hist, profile_views>>

\* INSERT INTO connections ... 'exploring'; the statement fails on a user that
\* does not exist (REFERENCES users) and on a pair already stored (UNIQUE),
\* and the handler then answers without the UPDATE that follows
StartInsert(r) ==
    /\ r.pc = "startInsert"
    /\ LET a == r.user1Id
           b == r.user2Id
       IN  IF \/ a \notin 1..Len(users) \/ b \notin 1..Len(users)
              \/ \E k \in 1..Len(connections) :
                     connections[k].user1_id = a /\ connections[k].user2_id = b
              \/ ~(a < b)
           THEN /\ UNCHANGED connections
                /\ Finish(r)
           ELSE /\ connections' = Append(connections,
                      [user1_id |-> a, user2_id |-> b,
                       connection_state |-> "exploring",
                       conversation_quality_score |-> 0,
                       message_count |-> 0,
                       mutual_avatar_evolution |-> 0])
                /\ Goto(r, [pc |-> "startViews", user |-> r.user,
                            otherUserId |-> r.otherUserId])
    /\ UNCHANGED <<users, session, messages, fcall, fret, hist, profile_views>>

\* UPDATE profile_views SET conversation_initiated = TRUE
\* WHERE viewer_id = $1 AND viewed_id = $2
StartViews(r) ==
    /\ r.pc = "startViews"
    /\ profile_views' =
          {IF v.viewer_id = r.user /\ v.viewed_id = r.otherUserId
           THEN [v EXCEPT !.conversation_initiated = TRUE] ELSE v : v \in profile_views}
    /\ Finish(r)
    /\ UNCHANGED <<users, session, connections, messages, fcall, fret, hist>>

IsParticipant(u, k) ==
    /\ k \in 1..Len(connections)
    /\ (connections[k].user1_id = u \/ connections[k].user2_id = u)

\* the rows of one connection, ORDER BY created_at ASC
MessagesOf(k) == SelectSeq(messages, LAMBDA m : m.connection_id = k)

-----------------------------------------------------------------------------
(* GET /connection/:connectionId *)

\* the columns of the connection row that the rest of the handler reads
ConnectionRead(row) ==
    [message_count |-> row.message_count,
     mutual_avatar_evolution |-> row.mutual_avatar_evolution]

\* ViewBegin selecting the connection WHERE c.id = $2 alone
ViewBegin_AnyUser(c, connectionId) ==
    /\ CanAdmit
    /\ fcall = NoCall
    /\ isOnboardingComplete(c)
    /\ connectionId \in 1..Len(connections)
    /\ Admit([pc |-> "viewMessages", user |-> session[c], conn |-> connectionId,
                connection |-> ConnectionRead(connections[connectionId])])
    /\ hist' = NoteViewBegan(connectionId)
    /\ UNCHANGED <<users, session, connections, messages, fcall, fret, profile_views>>

\* middleware, getCurrentUser, SELECT the connection of which the user is part
ViewBegin(c, connectionId) ==
    /\ CanAdmit
    /\ fcall = NoCall
    /\ isOnboardingComplete(c)
    /\ IsParticipant(session[c], connectionId)
    /\ Admit([pc |-> "viewMessages", user |-> session[c], conn |-> connectionId,
                connection |-> ConnectionRead(connections[connectionId])])
    /\ hist' = NoteViewBegan(connectionId)
    /\ UNCHANGED <<users, session, connections, messages, fcall, fret, profile_views>>

\* the connection is not one of the user's: 403, redirect to /
ViewRefuse(c, connectionId) ==
    /\ CanAdmit
    /\ fcall = NoCall
    /\ isOnboardingComplete(c)
    /\ ~IsParticipant(session[c], connectionId)
    /\ Admit(Redirect(c, "GET /connection", 403, [path |-> "/"]))
    /\ UNCHANGED <<users, session, connections, messages, fcall, fret, hist, profile_views>>

\* ViewMessages evaluating is_repetitive of every row of the connection anew,
\* against the other rows, and storing it
ViewMessages_Reflag(r) ==
    /\ r.pc = "viewMessages"
    /\ messages' =
          [i \in 1..Len(messages) |->
              IF messages[i].connection_id = r.conn
              THEN [messages[i] EXCEPT !.is_repetitive =
                       isRepetitiveMessage(messages[i].message_text,
                           SelectSeq([j \in 1..Len(messages) |->
                                         IF j = i THEN [messages[j] EXCEPT !.connection_id = 0]
                                         ELSE messages[j]],
                                     LAMBDA m : m.connection_id = r.conn))]
              ELSE messages[i]]
    /\ Goto(r, [r EXCEPT !.pc = "viewScores"]
                 @@ [rows |-> MessagesOf(r.conn)'])
    /\ UNCHANGED <<users, session, connections, fcall, fret, hist, profile_views>>

\* SELECT the messages of the connection ORDER BY created_at ASC.  (The UPDATE
\* of last_activity_userN that follows writes a timestamp no handler reads.)
ViewMessages(r) ==
    /\ r.pc = "viewMessages"
    /\ Goto(r, [r EXCEPT !.pc = "viewScores"]
                 @@ [rows |-> MessagesOf(r.conn)])
    /\ UNCHANGED <<users, session, connections, messages, fcall, fret, hist, profile_views>>

\* ViewScores with mutual_avatar_evolution = GREATEST(mutual_avatar_evolution, $2)
ViewScores_Ratchet(r) ==
    /\ r.pc = "viewScores"
    /\ LET quality == calculateConversationQuality(r.rows)
           avatarEvolution == calculateAvatarEvolution(
               r.connection @@ [conversation_quality_score |-> quality])
       IN  /\ connections' = [connections EXCEPT ![r.conn] =
                 [@ EXCEPT !.conversation_quality_score = ToDecimal2(quality),
                           !.mutual_avatar_evolution =
                               Max2(@, ToDecimal2(avatarEvolution))]]
           /\ Goto(r, [pc |-> "viewUser", user |-> r.user,
                       connection |-> r.connection,
                       avatarEvolution |-> avatarEvolution])
    /\ UNCHANGED <<users, session, messages, fcall, fret, hist, profile_views>>

\* quality and evolution from the rows and the connection read earlier, then
\* UPDATE connections SET conversation_quality_score, mutual_avatar_evolution
ViewScores(r) ==
    /\ r.pc = "viewScores"
    /\ LET quality == calculateConversationQuality(r.rows)
           avatarEvolution == calculateAvatarEvolution(
               r.connection @@ [conversation_quality_score |-> quality])
       IN  /\ connections' = [connections EXCEPT ![r.conn] =
                 [@ EXCEPT !.conversation_quality_score = ToDecimal2(quality),
                           !.mutual_avatar_evolution = ToDecimal2(avatarEvolution)]]
           /\ Goto(r, [pc |-> "viewUser", user |-> r.user,
                       connection |-> r.connection,
                       avatarEvolution |-> avatarEvolution])
    /\ UNCHANGED <<users, session, messages, fcall, fret, hist, profile_views>>

\* the new value alone, for GREATEST(avatar_evolution, $1)
GreatestEvolution_Overwrite(stored, avatarEvolution) == ToDecimal2(avatarEvolution)

\* avatar_evolution + $1, capped at 1, for GREATEST(avatar_evolution, $1)
GreatestEvolution_Sum(stored, avatarEvolution) ==
    ToDecimal2(RatMin(RatAdd(FromDecimal2(stored), avatarEvolution), One))

\* GREATEST(avatar_evolution, $1), assigned to the DECIMAL(3,2) column
GreatestEvolution(stored, avatarEvolution) ==
    ToDecimal2(RatMax(FromDecimal2(stored), avatarEvolution))

\* the template deciding from the evolution the handler has just computed
ConnectionPage_Fresh(connection, avatarEvolution) ==
    [evolved |-> avatarEvolved(avatarEvolution),
     deepening |-> connectionDeepening(avatarEvolution)]

\* the avatar and the notice of the conversation page, which the template
\* decides from the handler's locals
ConnectionPage(connection, avatarEvolution) ==
    [evolved |-> avatarEvolved(FromDecimal2(connection.mutual_avatar_evolution)),
     deepening |-> connectionDeepening(FromDecimal2(connection.mutual_avatar_evolution))]

\* ViewUser with the UPDATE of users WHERE id is the user's or that of a
\* partner in one of the user's connections
ViewUser_Partners(r) ==
    /\ r.pc = "viewUser"
    /\ users' = [u \in 1..Len(users) |->
                    IF \E k \in 1..Len(connections) :
                           IsParticipant(u, k) /\ IsParticipant(r.user, k)
                    THEN [users[u] EXCEPT !.avatar_evolution =
                             GreatestEvolution(@, r.avatarEvolution)]
                    ELSE users[u]]
    /\ Finish(r)
    /\ hist' = Note(NoteViewDone(r.user), "page",
                    [user |-> r.user]
                       @@ ConnectionPage(r.connection, r.avatarEvolution))
    /\ UNCHANGED <<session, connections, messages, fcall, fret, profile_views>>

\* UPDATE users SET avatar_evolution = GREATEST(avatar_evolution, $1); the
\* statement fails when the CHECK (0.0 <= avatar_evolution <= 1.0) does; then
\* the page is rendered
ViewUser(r) ==
    /\ r.pc = "viewUser"
    /\ LET u == r.user
           new == GreatestEvolution(users[u].avatar_evolution, r.avatarEvolution)
       IN  IF new >= 0 /\ new <= 100
           THEN users' = [users EXCEPT ![u].avatar_evolution = new]
           ELSE UNCHANGED users
    /\ Finish(r)
    /\ hist' = Note(NoteViewDone(r.user), "page",
                    [user |-> r.user]
                       @@ ConnectionPage(r.connection, r.avatarEvolution))
    /\ UNCHANGED <<session, connections, messages, fcall, fret, profile_views>>

-----------------------------------------------------------------------------
(* POST /connection/:connectionId/message *)

PreviousLimit == 10

RECURSIVE Reverse(_)
Reverse(s) == IF s = <<>> THEN <<>> ELSE Reverse(Tail(s)) \o <<Head(s)>>

\* SELECT * FROM messages WHERE connection_id = $1 ORDER BY created_at DESC LIMIT 10
PreviousMessages(k) ==
    LET desc == Reverse(MessagesOf(k))
    IN  IF Len(desc) <= PreviousLimit THEN desc ELSE SubSeq(desc, 1, PreviousLimit)

\* middleware, getCurrentUser, sanitizeLongText, the length checks, SELECT the
\* connection of which the user is part (none of which reads a value that a
\* later statement can change), SELECT the previous messages, then
\* isRepetitiveMessage; cap bounds the rows of table messages
SendBegin(c, connectionId, message, cap) ==
    /\ CanAdmit
    /\ fcall = NoCall
    /\ isOnboardingComplete(c)
    /\ LET messageText == sanitizeLongText(message)
       IN  /\ Len(messageText) # 0
           /\ ~(Len(messageText) > LongTextMax)
           /\ IsParticipant(session[c], connectionId)
           /\ Len(messages) + InFlight({"sendInsert"}) < cap
           /\ Admit([pc |-> "sendInsert", user |-> session[c],
                       conn |-> connectionId, messageText |-> messageText,
                       isRepetitive |-> isRepetitiveMessage(messageText,
                                            PreviousMessages(connectionId))])
    /\ UNCHANGED <<users, session, connections, messages, fcall, fret, hist, profile_views>>

\* an empty message: 400, back to the connection; a connection that is not
\* one of the user's: 403, redirect to /
SendRefuse(c, connectionId, message) ==
    /\ CanAdmit
    /\ fcall = NoCall
    /\ isOnboardingComplete(c)
    /\ LET messageText == sanitizeLongText(message)
       IN  \/ /\ Len(messageText) = 0
              /\ Admit(Redirect(c, "POST /connection/message", 400,
                                [path |-> "/connection", id |-> connectionId]))
           \/ /\ Len(messageText) # 0
              /\ ~(Len(messageText) > LongTextMax)
              /\ ~IsParticipant(session[c], connectionId)
              /\ Admit(Redirect(c, "POST /connection/message", 403, [path |-> "/"]))
    /\ UNCHANGED <<users, session, connections, messages, fcall, fret, hist, profile_views>>

\* INSERT INTO messages
SendInsert(r) ==
    /\ r.pc = "sendInsert"
    /\ messages' = Append(messages,
          [connection_id |-> r.conn,
           sender_id |-> r.user,
           message_text |-> r.messageText,
           message_length |-> Len(r.messageText),
           is_repetitive |-> r.isRepetitive])
    /\ Goto(r, [pc |-> "sendCount", conn |-> r.conn])
    /\ hist' = NoteStored(r.conn, r.isRepetitive \/ Len(r.messageText) <= MinValidLength)
    /\ UNCHANGED <<users, session, connections, fcall, fret, profile_views>>

\* the UPDATE of message_count throws (the connection to the database is
\* lost, the statement times out): the catch block answers 500; the INSERT
\* before it was its own statement and stays
SendCountFails(r) ==
    /\ r.pc = "sendCount"
    /\ Finish(r)
    /\ hist' = NoteFailed(r.conn)
    /\ UNCHANGED <<users, session, connections, messages, fcall, fret, profile_views>>

\* SendCount setting message_count to the number of rows stored
SendCount_Recount(r) ==
    /\ r.pc = "sendCount"
    /\ connections' = [connections EXCEPT ![r.conn] =
          [@ EXCEPT !.message_count = Len(MessagesOf(r.conn))]]
    /\ Goto(r, [pc |-> "sendState", conn |-> r.conn])
    /\ UNCHANGED <<users, session, messages, fcall, fret, hist, profile_views>>

\* UPDATE connections SET message_count = message_count + 1, last_message_at
SendCount(r) ==
    /\ r.pc = "sendCount"
    /\ connections' = [connections EXCEPT ![r.conn] =
          [@ EXCEPT !.message_count = @ + 1]]
    /\ Goto(r, [pc |-> "sendState", conn |-> r.conn])
    /\ UNCHANGED <<users, session, messages, fcall, fret, hist, profile_views>>

\* the handler answering without the UPDATE of connection_state
SendState_Skip(r) ==
    /\ r.pc = "sendState"
    /\ Finish(r)
    /\ UNCHANGED <<users, session, connections, messages, fcall, fret, hist, profile_views>>

\* UPDATE connections SET connection_state = 'connected' WHERE ... = 'exploring'
SendState(r) ==
    /\ r.pc = "sendState"
    /\ connections' = [connections EXCEPT ![r.conn] =
          IF @.connection_state = "exploring"
          THEN [@ EXCEPT !.connection_state = "connected"]
          ELSE @]
    /\ Finish(r)
    /\ UNCHANGED <<users, session, messages, fcall, fret, hist, profile_views>>

-----------------------------------------------------------------------------
(* The application *)

Init ==
    /\ InitApp
    /\ fcall = NoCall
    /\ fret = <<>>

Next ==
    \/ \E c \in Clients :
          \E email \in EmailsOf(c), p \in Passwords, q \in Passwords :
             RegisterBegin(c, email, p, q)
    \/ \E r \in Requests : RegisterInsert(r)
    \/ \E c \in Clients, a \in Answers : OnboardingStep4(c, a)
    \/ \E c \in Clients, o \in 1..(MaxUsers + 1) : StartBegin(c, o, MaxConnections)
    \/ \E r \in Requests : StartInsert(r)
    \/ \E r \in Requests : StartViews(r)
    \/ \E c \in Clients, k \in 1..MaxConnections : ViewBegin(c, k)
    \/ \E r \in Requests : ViewMessages(r)
    \/ \E r \in Requests : ViewScores(r)
    \/ \E r \in Requests : ViewUser(r)
    \/ \E c \in Clients, k \in 1..MaxConnections, b \in Bodies :
          SendBegin(c, k, b, MaxMessages)
    \/ \E r \in Requests : SendInsert(r)
    \/ \E r \in Requests : SendCount(r)
    \/ \E r \in Requests : SendState(r)

Spec == Init /\ [][Next]_vars

-----------------------------------------------------------------------------
(* One client posting message after message on a connection, one request at
   a time.  InitThread is a state of Spec: both users registered and
   onboarded, the connection started, nothing in flight. *)

ThreadUser(email) ==
    [email |-> email, password_hash |-> bcryptHash(PassGood),
     name |-> <<"A", "l">>, age |-> {30}, gender |-> <<"w">>,
     imperfection_1 |-> AnswerLate,
     imperfection_2 |-> AnswerGood, onboarding_complete |-> TRUE,
     avatar_evolution |-> 0, active |-> TRUE]

InitThread ==
    /\ users = <<ThreadUser(EmailA), ThreadUser(EmailZ)>>
    /\ session = [c \in Clients |-> IF c <= 2 THEN c ELSE 0]
    /\ connections = << [user1_id |-> 1, user2_id |-> 2,
                         connection_state |-> "exploring",
                         conversation_quality_score |-> 0,
                         message_count |-> 0,
                         mutual_avatar_evolution |-> 0] >>
    /\ messages = <<>>
    /\ reqs = EmptyBag
    /\ fcall = NoCall
    /\ fret = <<>>
    /\ hist = NoHistory
    /\ profile_views = {}

ThreadBodies == {TextA, TextB}

NextThread ==
    \/ \E b \in ThreadBodies : reqs = EmptyBag /\ SendBegin(1, 1, b, MaxThread)
    \/ \E r \in Requests : SendInsert(r)
    \/ \E r \in Requests : SendCount(r)
    \/ \E r \in Requests : SendState(r)

SpecThread == InitThread /\ [][NextThread]_vars

-----------------------------------------------------------------------------
(* One client registering, answering the onboarding questions in any order
   and any number of times, logging out and in. *)

NameInputs == { <<"A", "l">>, <<" ", "B", "o", ">">>, <<"X">> }
AgeInputs == { <<"3", "0">>, <<"4", "1", "y">>, <<"1", "7">>, <<"y">> }
GenderInputs == { <<"w">>, <<"m">>, <<" ">> }
AnswerInputs == {AnswerGood, AnswerLate, AnswerShort, AnswerEmoji}

NextOnboarding ==
    \/ \E email \in {EmailA, EmailBad}, p \in Passwords, q \in Passwords :
          reqs = EmptyBag /\ RegisterBegin(1, email, p, q)
    \/ \E r \in Requests : RegisterInsert(r)
    \/ \E email \in {EmailAUpper, EmailZ}, p \in Passwords :
          reqs = EmptyBag /\ LoginBegin(1, email, p)
    \/ \E r \in Requests : LoginCompare(r)
    \/ reqs = EmptyBag /\ session[1] # 0 /\ Logout(1)
    \/ \E n \in NameInputs, a \in AgeInputs : OnboardingStep1(1, n, a)
    \/ \E g \in GenderInputs : OnboardingStep2(1, g)
    \/ \E a \in AnswerInputs : OnboardingStep3(1, a)
    \/ \E a \in AnswerInputs : OnboardingStep4(1, a)

SpecOnboarding == Init /\ [][NextOnboarding]_vars

-----------------------------------------------------------------------------
(* The site from an empty database, one request at a time: registration,
   login and logout, the last onboarding step, and the routes behind the
   access gate, refused or served.  The run records the clients that logged
   out.  (Onboarding steps 1 to 3 write columns no gate reads.) *)

MaxSite == 1           \* rows of table messages under SpecSite

InitSite ==
    /\ users = <<>>
    /\ session = [c \in Clients |-> 0]
    /\ connections = <<>>
    /\ messages = <<>>
    /\ reqs = EmptyBag
    /\ profile_views = {}
    /\ fcall = NoCall
    /\ fret = <<>>
    /\ hist = [out |-> {}]

SiteEmails == {EmailA, EmailZ}

Idle == reqs = EmptyBag

NextSite ==
    \/ \E c \in Clients, email \in SiteEmails :
          Idle /\ RegisterBegin(c, email, PassGood, PassGood)
    \/ \E r \in Requests : RegisterInsert(r)
    \/ \E c \in Clients, email \in SiteEmails, p \in Passwords :
          Idle /\ LoginBegin(c, email, p)
    \/ \E r \in Requests : LoginCompare(r)
    \/ \E c \in Clients : Idle /\ session[c] # 0 /\ Logout(c)
    \/ \E c \in Clients : Idle /\ OnboardingStep4(c, AnswerGood)
    \/ \E c \in Clients, route \in GatedRoutes : Idle /\ GateRefuse(c, route)
    \/ \E r \in Requests : Respond(r)
    \/ \E c \in Clients, o \in 1..MaxUsers : Idle /\ ProfileView(c, o)
    \/ \E c \in Clients, o \in 1..MaxUsers : Idle /\ ProfileRefuse(c, o)
    \/ \E c \in Clients, o \in 1..MaxUsers : Idle /\ StartBegin(c, o, MaxConnections)
    \/ \E r \in Requests : StartInsert(r)
    \/ \E r \in Requests : StartViews(r)
    \/ \E c \in Clients : Idle /\ ViewBegin(c, 1)
    \/ \E c \in Clients : Idle /\ ViewRefuse(c, 1)
    \/ \E r \in Requests : ViewMessages(r)
    \/ \E r \in Requests : ViewScores(r)
    \/ \E r \in Requests : ViewUser(r)
    \/ \E c \in Clients : Idle /\ SendBegin(c, 1, Body50, MaxSite)
    \/ \E c \in Clients, b \in {Body50, BodyBlank} : Idle /\ SendRefuse(c, 1, b)
    \/ \E r \in Requests : SendInsert(r)
    \/ \E r \in Requests : SendCount(r)
    \/ \E r \in Requests : SendState(r)

SpecSite == InitSite /\ [][NextSite]_vars

-----------------------------------------------------------------------------
(* Three users who completed onboarding and no connection yet.  Clients 1 and
   2 are users 1 and 2; they open profiles and start conversations with each
   other, with user 3, with themselves and with a user that does not exist, up
   to NumReqs requests at once. *)

MaxStart == 3          \* pairs of users with a connection stored or being stored

BrowseUsers == <<ThreadUser(EmailA), ThreadUser(EmailZ), ThreadUser(EmailY)>>

InitStart ==
    /\ users = BrowseUsers
    /\ session = [c \in Clients |-> c]
    /\ connections = <<>>
    /\ messages = <<>>
    /\ reqs = EmptyBag
    /\ profile_views = {}
    /\ fcall = NoCall
    /\ fret = <<>>
    /\ hist = NoHistory

NextStart ==
    \/ \E c \in Clients, p \in 1..3 : ProfileView(c, p)
    \/ \E c \in Clients, o \in 1..4 : StartBegin(c, o, MaxStart)
    \/ \E c \in Clients, o \in 1..4 : StartRefuse(c, o)
    \/ \E r \in Requests : StartInsert(r)
    \/ \E r \in Requests : StartViews(r)
    \/ \E r \in Requests : Respond(r)

SpecStart == InitStart /\ [][NextStart]_vars

-----------------------------------------------------------------------------
(* Browsing: three users who completed onboarding and a fourth who has not.
   Clients 1 and 2 are users 1 and 2; they load the home page, open and skip
   profiles and start conversations, with one answer at a time on its way
   to a client.  The run records the profiles opened and skipped. *)

EmailX == <<"x", "@", "b", ".", "c">>

SkipInputs == {<<"3">>, <<"3", "x">>, <<"x">>}

InitBrowse ==
    /\ users = BrowseUsers \o
                 << [email |-> EmailX, password_hash |-> bcryptHash(PassGood),
                     name |-> NULL, age |-> NullInt, gender |-> NULL,
                     imperfection_1 |-> NULL, imperfection_2 |-> NULL,
                     onboarding_complete |-> FALSE,
                     avatar_evolution |-> 0, active |-> TRUE] >>
    /\ session = [c \in Clients |-> c]
    /\ connections = <<>>
    /\ messages = <<>>
    /\ reqs = EmptyBag
    /\ profile_views = {}
    /\ fcall = NoCall
    /\ fret = <<>>
    /\ hist = [opened |-> {}, skipped |-> {}]

NextBrowse ==
    \/ \E c \in Clients : InFlight({"respond"}) = 0 /\ Home(c)
    \/ \E c \in Clients, p \in 1..4 : ProfileView(c, p)
    \/ \E c \in Clients, p \in 1..4 : InFlight({"respond"}) = 0 /\ ProfileRefuse(c, p)
    \/ \E c \in Clients, t \in SkipInputs : InFlight({"respond"}) = 0 /\ SkipProfile(c, t)
    \/ \E c \in Clients, o \in 1..3 : StartBegin(c, o, MaxStart)
    \/ \E r \in Requests : StartInsert(r)
    \/ \E r \in Requests : StartViews(r)
    \/ \E r \in Requests : Respond(r)

SpecBrowse == InitBrowse /\ [][NextBrowse]_vars

-----------------------------------------------------------------------------
(* Three users who completed onboarding, a connection between the first two.
   Client 1 is user 1; client 2 is user 3 and may log in as user 2 or 3.  Both
   clients request connection 1 and a connection that does not exist, up to
   NumReqs requests at once. *)

MaxGate == 1           \* rows of table messages under SpecGate

InitGate ==
    /\ users = <<ThreadUser(EmailA), ThreadUser(EmailZ), ThreadUser(EmailY)>>
    /\ session = [c \in Clients |-> IF c = 1 THEN 1 ELSE 3]
    /\ connections = << [user1_id |-> 1, user2_id |-> 2,
                         connection_state |-> "exploring",
                         conversation_quality_score |-> 0,
                         message_count |-> 0,
                         mutual_avatar_evolution |-> 0] >>
    /\ messages = <<>>
    /\ reqs = EmptyBag
    /\ profile_views = {}
    /\ fcall = NoCall
    /\ fret = <<>>
    /\ hist = NoHistory

NextGate ==
    \/ \E email \in {EmailZ, EmailY}, p \in Passwords : LoginBegin(2, email, p)
    \/ \E r \in Requests : LoginCompare(r)
    \/ \E c \in Clients, k \in 1..2 : ViewBegin(c, k)
    \/ \E c \in Clients, k \in 1..2 : ViewRefuse(c, k)
    \/ \E r \in Requests : ViewMessages(r)
    \/ \E r \in Requests : ViewScores(r)
    \/ \E r \in Requests : ViewUser(r)
    \/ \E c \in Clients, k \in 1..2 : SendBegin(c, k, Body50, MaxGate)
    \/ \E c \in Clients, k \in 1..2 : SendRefuse(c, k, Body50)
    \/ \E r \in Requests : SendInsert(r)
    \/ \E r \in Requests : SendCount(r)
    \/ \E r \in Requests : SendState(r)
    \/ \E r \in Requests : Respond(r)

SpecGate == InitGate /\ [][NextGate]_vars

-----------------------------------------------------------------------------
(* Both users of a connection viewing it and posting on it, up to NumReqs
   requests at once.  The state before the first message is InitThread; the
   run records which connections had a view begin after their latest message
   was stored. *)

StartedThread(h) ==
    /\ users = <<ThreadUser(EmailA), ThreadUser(EmailZ)>>
    /\ session = [c \in Clients |-> IF c <= 2 THEN c ELSE 0]
    /\ connections = << [user1_id |-> 1, user2_id |-> 2,
                         connection_state |-> "exploring",
                         conversation_quality_score |-> 0,
                         message_count |-> 0,
                         mutual_avatar_evolution |-> 0] >>
    /\ messages = <<>>
    /\ reqs = EmptyBag
    /\ fcall = NoCall
    /\ fret = <<>>
    /\ hist = h
    /\ profile_views = {}

InitRace == StartedThread([fresh |-> {}])

RaceBodies == {Body50, Body21}

NextRace ==
    \/ \E c \in Clients : ViewBegin(c, 1)
    \/ \E r \in Requests : ViewMessages(r)
    \/ \E r \in Requests : ViewScores(r)
    \/ \E r \in Requests : ViewUser(r)
    \/ \E c \in Clients, b \in RaceBodies : SendBegin(c, 1, b, MaxMessages)
    \/ \E r \in Requests : SendInsert(r)
    \/ \E r \in Requests : SendCount(r)
    \/ \E r \in Requests : SendState(r)

SpecRace == InitRace /\ [][NextRace]_vars

-----------------------------------------------------------------------------
(* Both users of a connection viewing it and posting on it, up to NumReqs
   requests at once, from InitThread; the UPDATE of message_count may fail.
   The run records the failures. *)

MaxFail == 2           \* rows of table messages under SpecFail

InitFail == StartedThread([failed |-> [k \in 1..MaxConnections |-> 0]])

NextFail ==
    \/ \E c \in Clients : ViewBegin(c, 1)
    \/ \E r \in Requests : ViewMessages(r)
    \/ \E r \in Requests : ViewScores(r)
    \/ \E r \in Requests : ViewUser(r)
    \/ \E c \in Clients : SendBegin(c, 1, Body50, MaxFail)
    \/ \E r \in Requests : SendInsert(r)
    \/ \E r \in Requests : SendCount(r)
    \/ \E r \in Requests : SendCountFails(r)
    \/ \E r \in Requests : SendState(r)

SpecFail == InitFail /\ [][NextFail]_vars

-----------------------------------------------------------------------------
(* Both users of a connection viewing it and posting on it, one request at
   a time, from InitThread.  The run records the view that completed last
   and what was stored since. *)

MaxSeq == 3            \* rows of table messages under SpecSeq

InitSeq ==
    StartedThread([now |-> 0, last |-> NoView,
                   low |-> [k \in 1..MaxConnections |-> NoLow]])

SeqBodies == {Body50, TextA}

NextSeq ==
    \/ \E c \in Clients : reqs = EmptyBag /\ ViewBegin(c, 1)
    \/ \E r \in Requests : ViewMessages(r)
    \/ \E r \in Requests : ViewScores(r)
    \/ \E r \in Requests : ViewUser(r)
    \/ \E c \in Clients, b \in SeqBodies :
          reqs = EmptyBag /\ SendBegin(c, 1, b, MaxSeq)
    \/ \E r \in Requests : SendInsert(r)
    \/ \E r \in Requests : SendCount(r)
    \/ \E r \in Requests : SendState(r)

SpecSeq == InitSeq /\ [][NextSeq]_vars

\* the same requests; the run records what each view found stored when it
\* began and the page it rendered
InitPage == StartedThread([now |-> 0, atStart |-> 0, page |-> NoPage])

SpecPage == InitPage /\ [][NextSeq]_vars

\* one request at a time with messages of 50 and of 21 characters; the run
\* records what each view found stored when it began
InitDrop == StartedThread([now |-> 0, atStart |-> 0])

DropBodies == {Body50, Body21}

NextDrop ==
    \/ \E c \in Clients : reqs = EmptyBag /\ ViewBegin(c, 1)
    \/ \E r \in Requests : ViewMessages(r)
    \/ \E r \in Requests : ViewScores(r)
    \/ \E r \in Requests : ViewUser(r)
    \/ \E c \in Clients, b \in DropBodies :
          reqs = EmptyBag /\ SendBegin(c, 1, b, MaxSeq)
    \/ \E r \in Requests : SendInsert(r)
    \/ \E r \in Requests : SendCount(r)
    \/ \E r \in Requests : SendState(r)

SpecDrop == InitDrop /\ [][NextDrop]_vars


-----------------------------------------------------------------------------
(* The scoring functions applied to drawn arguments *)

\* sequences over S of length 0..n
SeqsUpTo(S, n) == UNION {[1..k -> S] : k \in 0..n}

\* message rows as calculateConversationQuality may be handed them
LengthInputs == {0, 20, 21, 35, 50, 80}
MessageObjects ==
    [message_length : LengthInputs, is_repetitive : BOOLEAN]
    \cup { [is_repetitive |-> FALSE],
           [message_length |-> 50],
           [message_length |-> -3, is_repetitive |-> FALSE] }

\* connection objects as calculateAvatarEvolution may be handed them
QualityInputs == {Zero, Rat(21, 50), Rat(1, 2), Rat(71, 100), One}
ConnectionObjects ==
    [message_count : 0..MaxCount, conversation_quality_score : QualityInputs]
    \cup { [message_count |-> 10],
           [conversation_quality_score |-> Rat(1, 2)],
           [mutual_avatar_evolution |-> 0],
           [message_count |-> 10, conversation_quality_score |-> Rat(1, 2),
            mutual_avatar_evolution |-> 100, connection_state |-> "connected"] }

NewTexts == { <<>>, TextOk, TextOkPadded, TextHello, TextNine, TextTen,
              TextNinePadded, TextA, TextAShout, TextB }
PriorTexts == {TextA, TextAShout, TextB}
PriorObjects == {[message_text |-> t] : t \in PriorTexts}

InitQuality ==
    /\ InitApp
    /\ fcall \in {[fn |-> "quality", args |-> <<m>>] : m \in SeqsUpTo(MessageObjects, MaxList)}
    /\ fret = <<>>

InitEvolution ==
    /\ InitApp
    /\ fcall \in {[fn |-> "evolution", args |-> <<a, b>>] :
                    a \in ConnectionObjects, b \in ConnectionObjects}
    /\ fret = <<>>

InitRepetitive ==
    /\ InitApp
    /\ fcall \in {[fn |-> "repetitive", args |-> <<t, p>>] :
                    t \in NewTexts, p \in SeqsUpTo(PriorObjects, MaxPrev)}
    /\ fret = <<>>

ApplyQuality ==
    /\ fcall.fn = "quality" /\ fret = <<>>
    /\ fret' = <<calculateConversationQuality(fcall.args[1])>>
    /\ UNCHANGED <<appVars, fcall, hist, profile_views>>

ApplyEvolution ==
    /\ fcall.fn = "evolution" /\ fret = <<>>
    /\ fret' = <<calculateAvatarEvolution(fcall.args[1]),
                 calculateAvatarEvolution(fcall.args[2])>>
    /\ UNCHANGED <<appVars, fcall, hist, profile_views>>

ApplyRepetitive ==
    /\ fcall.fn = "repetitive" /\ fret = <<>>
    /\ fret' = <<isRepetitiveMessage(fcall.args[1], fcall.args[2])>>
    /\ UNCHANGED <<appVars, fcall, hist, profile_views>>

\* an evolution value as a DECIMAL(3,2) column within its CHECK holds it
InitRender ==
    /\ InitApp
    /\ fcall \in {[fn |-> "render", args |-> <<h>>] : h \in 0..100}
    /\ fret = <<>>

ApplyRender ==
    /\ fcall.fn = "render" /\ fret = <<>>
    /\ fret' = <<avatarEvolved(FromDecimal2(fcall.args[1])),
                 connectionDeepening(FromDecimal2(fcall.args[1]))>>
    /\ UNCHANGED <<appVars, fcall, hist, profile_views>>

InitFunctions == InitQuality \/ InitEvolution \/ InitRepetitive \/ InitRender

NextFunctions == ApplyQuality \/ ApplyEvolution \/ ApplyRepetitive \/ ApplyRender

SpecFunctions == InitFunctions /\ [][NextFunctions]_vars

Returned(fn) == fcall.fn = fn /\ fret # <<>>

\* the application together with the scoring functions on drawn arguments
SpecAll == (Init \/ InitFunctions) /\ [][Next \/ NextFunctions]_vars

-----------------------------------------------------------------------------
(* Claims about the scoring functions, checked under SpecFunctions *)

RECURSIVE SumOver(_, _)
\* the sum of f[i] over the finite set I
SumOver(f, I) ==
    IF I = {} THEN 0
    ELSE LET i == CHOOSE j \in I : TRUE IN f[i] + SumOver(f, I \ {i})

\* a message the spec calls valid: not flagged repetitive, length > 20
ValidIndexes(msgs) ==
    {i \in 1..Len(msgs) :
        /\ Has(msgs[i], "message_length") /\ msgs[i].message_length > 20
        /\ ~(Has(msgs[i], "is_repetitive") /\ msgs[i].is_repetitive)}

\* 100 * (sum over the valid messages of min(length / 100, 0.5))
CappedTotal(msgs) ==
    SumOver([i \in 1..Len(msgs) |->
                IF Has(msgs[i], "message_length")
                THEN Min2(msgs[i].message_length, 50) ELSE 0],
            ValidIndexes(msgs))

\* C1: calculateConversationQuality is 0 when no message is valid, and otherwise
\* min(2 * (sum over valid of min(length/100, 0.5)) / (number of valid), 1);
\* one non-repetitive message of length 50 gives 1.
C1_QualityFormula ==
    Returned("quality") =>
        LET msgs == fcall.args[1]
            n == Cardinality(ValidIndexes(msgs))
            t == CappedTotal(msgs)
            q == fret[1]
        IN  /\ q.den > 0
            /\ n = 0 => q.num = 0
            /\ (n > 0 /\ 2 * t >= 100 * n) => q.num = q.den
            /\ (n > 0 /\ 2 * t < 100 * n) => q.num * 100 * n = 2 * t * q.den
            /\ msgs = <<[message_length |-> 50, is_repetitive |-> FALSE]>>
                  => (q.num = 1 /\ q.den = 1)

\* two valid messages of different lengths and an ignored one: 0 < quality < 1
C1_Witness ==
    /\ Returned("quality")
    /\ fcall.args[1] = << [message_length |-> 21, is_repetitive |-> FALSE],
                          [message_length |-> 80, is_repetitive |-> TRUE],
                          [message_length |-> 35, is_repetitive |-> FALSE] >>
    /\ fret[1] = [num |-> 14, den |-> 25]

WellFormedConnection(c) ==
    Has(c, "message_count") /\ Has(c, "conversation_quality_score")

\* C3: calculateAvatarEvolution is min(quality * 0.7 + min(count / 20, 1) * 0.3, 1),
\* whatever else the connection object holds; (0, 0.0) gives 0.0 and
\* (10, 0.5) gives 0.5.
C3_EvolutionFormula ==
    Returned("evolution") =>
        \A k \in 1..2 :
            LET c == fcall.args[k]
                e == fret[k]
            IN  WellFormedConnection(c) =>
                  LET q == c.conversation_quality_score
                      vol == Min2(c.message_count, 20)
                      \* quality * 0.7 + volume * 0.3 = sumNum / (200 * q.den)
                      sumNum == 140 * q.num + 3 * vol * q.den
                  IN  /\ e.den > 0
                      /\ sumNum >= 200 * q.den => e.num = e.den
                      /\ sumNum < 200 * q.den => e.num * 200 * q.den = sumNum * e.den
                      /\ (c.message_count = 0 /\ q = Zero) => e.num = 0
                      /\ (c.message_count = 10 /\ q = Rat(1, 2))
                            => (e.num = 1 /\ e.den = 2)

\* a connection with messages (balance 0.5) evaluated next to one without
C3_Witness ==
    /\ Returned("evolution")
    /\ fcall.args[1] = [message_count |-> 10, conversation_quality_score |-> Rat(1, 2)]
    /\ fcall.args[2] = [message_count |-> 0, conversation_quality_score |-> Zero]
    /\ fret = <<Rat(1, 2), Zero>>

InUnitInterval(r) == r.den > 0 /\ 0 <= r.num /\ r.num <= r.den

\* C4: for message counts >= 0 and quality scores in [0,1] the evolution is in
\* [0,1] and does not decrease when the count or the quality grows.
C4_EvolutionMonotone ==
    Returned("evolution") =>
        LET a == fcall.args[1]
            b == fcall.args[2]
        IN  (WellFormedConnection(a) /\ WellFormedConnection(b)) =>
              /\ InUnitInterval(fret[1]) /\ InUnitInterval(fret[2])
              /\ ( /\ a.message_count <= b.message_count
                   /\ a.conversation_quality_score.num * b.conversation_quality_score.den
                        <= b.conversation_quality_score.num * a.conversation_quality_score.den )
                 => fret[1].num * fret[2].den <= fret[2].num * fret[1].den

\* counts on both sides of the volume cap, quality strictly larger
C4_Witness ==
    /\ Returned("evolution")
    /\ WellFormedConnection(fcall.args[1]) /\ WellFormedConnection(fcall.args[2])
    /\ fcall.args[1].message_count = 19 /\ fcall.args[2].message_count = 21
    /\ fcall.args[1].conversation_quality_score = Rat(21, 50)
    /\ fcall.args[2].conversation_quality_score = Rat(71, 100)
    /\ fret[1].num * fret[2].den < fret[2].num * fret[1].den

\* C7: with at least 2 prior messages, a text whose trimmed length is below 10,
\* or whose lower-cased trimmed form is a low-effort word, is flagged,
\* whatever the prior messages are.
C7_ShortOrLowEffortFlagged ==
    (Returned("repetitive") /\ Len(fcall.args[2]) >= 2) =>
        LET text == fcall.args[1]
        IN  /\ Len(trim(text)) < 10 => fret[1] = TRUE
            /\ trim(toLowerCase(text)) \in lowEffortPatterns => fret[1] = TRUE
            /\ text \in {<<>>, TextOk, TextOkPadded, TextHello, TextNine, TextNinePadded}
                  => fret[1] = TRUE

\* 9 characters between blanks (11 in all), no prior message like it
C7_Witness ==
    /\ Returned("repetitive")
    /\ fcall.args[1] = TextNinePadded
    /\ fcall.args[2] = <<[message_text |-> TextA], [message_text |-> TextB]>>
    /\ fret[1] = TRUE

\* the positions of the last 5 elements of a list
LastFive(prev) == {i \in 1..Len(prev) : i > Len(prev) - 5}

SameText(s, t) == trim(toLowerCase(s)) = trim(toLowerCase(t))

\* C8: with at least 2 prior messages and a text of trimmed length >= 10 that is
\* no low-effort word, the text is flagged exactly when it equals, lower-cased
\* and trimmed, one of the last 5 elements of the list given.
C8_DuplicateInLastFive ==
    ( /\ Returned("repetitive")
      /\ Len(fcall.args[2]) >= 2
      /\ Len(trim(fcall.args[1])) >= 10
      /\ trim(toLowerCase(fcall.args[1])) \notin lowEffortPatterns ) =>
        LET text == fcall.args[1]
            prev == fcall.args[2]
        IN  fret[1] = (\E i \in LastFive(prev) : SameText(prev[i].message_text, text))

\* the text equals only the first of 6 prior messages: not flagged
C8_Witness ==
    /\ Returned("repetitive")
    /\ fcall.args[1] = TextAShout
    /\ Len(fcall.args[2]) = 6
    /\ fcall.args[2][1].message_text = TextA
    /\ \A i \in 2..6 : fcall.args[2][i].message_text = TextB
    /\ fret[1] = FALSE

-----------------------------------------------------------------------------
(* Claims about the stored state *)

\* C2: calculateConversationQuality returns a value in [0,1] for every message
\* list, and the conversation_quality_score a view stores is in [0,1].
C2_QualityInUnitInterval ==
    /\ Returned("quality") => InUnitInterval(fret[1])
    /\ \A k \in 1..Len(connections) :
          /\ connections[k].conversation_quality_score >= 0
          /\ connections[k].conversation_quality_score <= 100
    /\ \A r \in Requests :
          r.pc = "viewScores" => InUnitInterval(calculateConversationQuality(r.rows))

\* a view has stored 0.71 for a 50-character and a 21-character message
C2_Witness ==
    /\ Len(connections) = 1
    /\ Len(messages) = 2
    /\ connections[1].conversation_quality_score = 71
    /\ reqs = EmptyBag

\* a request at position pc that this step answers
Answered(r, pc) == r.pc = pc /\ CopiesIn(r, reqs') < CopiesIn(r, reqs)

\* C5: a user's avatar_evolution never decreases and stays in [0,1]; it changes
\* only in a view by that user, which sets it to the larger of the stored value
\* and the evolution the view computed (at the two decimals of the column).
C5_EvolutionRatchet ==
    [][ /\ \A u \in 1..Len(users') :
              users'[u].avatar_evolution >= 0 /\ users'[u].avatar_evolution <= 100
        /\ \A u \in 1..Len(users) :
              /\ users'[u].avatar_evolution >= users[u].avatar_evolution
              /\ users'[u].avatar_evolution # users[u].avatar_evolution =>
                    \E r \in Requests :
                        /\ Answered(r, "viewUser")
                        /\ r.user = u
        /\ \A r \in Requests :
              Answered(r, "viewUser") =>
                  users'[r.user].avatar_evolution =
                      Max2(users[r.user].avatar_evolution, ToDecimal2(r.avatarEvolution))
      ]_vars

\* user 1 holds 0.72 from a view of one 50-character message; the last view,
\* also by user 1 (user 2 never viewed), computed 0.53 and left it unchanged
C5_Witness ==
    /\ Len(users) = 2 /\ Len(connections) = 1
    /\ reqs = EmptyBag
    /\ connections[1].mutual_avatar_evolution = 53
    /\ users[1].avatar_evolution = 72
    /\ users[2].avatar_evolution = 0

\* C6: isRepetitiveMessage is false for every text when fewer than 2 prior
\* messages are given; the first two messages of a connection are stored with
\* is_repetitive = false.
C6_FirstTwoNeverFlagged ==
    /\ (Returned("repetitive") /\ Len(fcall.args[2]) < 2) => fret[1] = FALSE
    /\ \A k \in 1..Len(connections) :
          \A i \in 1..Len(MessagesOf(k)) :
              i <= 2 => MessagesOf(k)[i].is_repetitive = FALSE

\* the second message repeats the first, and neither is flagged
C6_Witness ==
    /\ Len(connections) = 1
    /\ Len(MessagesOf(1)) = 2
    /\ MessagesOf(1)[1].message_text = MessagesOf(1)[2].message_text
    /\ MessagesOf(1)[1].is_repetitive = FALSE
    /\ MessagesOf(1)[2].is_repetitive = FALSE
    /\ reqs = EmptyBag

\* C9: a message sent on a connection with at least 2 messages, equal (lower-
\* cased, trimmed) to one of the 5 most recently stored messages of the
\* connection, is stored with is_repetitive = true.
C9_RecentDuplicateFlagged ==
    \A k \in 1..Len(connections) :
        LET thread == MessagesOf(k)
        IN  \A i \in 3..Len(thread) :
                (\E j \in 1..(i - 1) :
                    /\ j >= i - 5
                    /\ SameText(thread[j].message_text, thread[i].message_text))
                => thread[i].is_repetitive = TRUE

\* C10: a connection is created 'exploring'; the step that answers a send
\* leaves it 'connected'; it leaves 'exploring' only for 'connected', in a
\* send, and never leaves 'connected'.
C10_ExploringThenConnected ==
    [][ /\ \A k \in 1..Len(connections') :
              k > Len(connections) => connections'[k].connection_state = "exploring"
        /\ \A k \in 1..Len(connections) :
              /\ connections[k].connection_state = "connected"
                    => connections'[k].connection_state = "connected"
              /\ connections'[k].connection_state # connections[k].connection_state
                    => /\ connections'[k].connection_state = "connected"
                       /\ \E r \in Requests : Answered(r, "sendState") /\ r.conn = k
        /\ \A r \in Requests :
              Answered(r, "sendState") =>
                  connections'[r.conn].connection_state = "connected"
      ]_vars

\* two sends answered on the connection
C10_Witness ==
    /\ Len(connections) = 1
    /\ connections[1].connection_state = "connected"
    /\ connections[1].message_count = 2
    /\ Len(messages) = 2
    /\ reqs = EmptyBag

\* C11: when no request is in flight and a view of a connection began after
\* the connection's latest message was stored, the stored
\* conversation_quality_score is calculateConversationQuality of the
\* connection's messages (at the two decimals of the column), whatever views
\* and sends were interleaved.
C11_StoredQualityIsLive ==
    reqs = EmptyBag =>
        \A k \in 1..Len(connections) :
            (Records("fresh") /\ k \in hist.fresh) =>
                connections[k].conversation_quality_score =
                    ToDecimal2(calculateConversationQuality(MessagesOf(k)))

\* C12: of two successive views of a connection by the same user with no
\* message stored in between, the second stores the same
\* conversation_quality_score and mutual_avatar_evolution as the first and
\* leaves the viewer's avatar_evolution as the first left it.
C12_ViewIdempotent ==
    [][ \A r \in Requests :
          /\ ( /\ Answered(r, "viewScores")
               /\ Records("last")
               /\ hist.last.user = r.user /\ hist.last.conn = r.conn )
             => /\ connections'[r.conn].conversation_quality_score
                      = connections[r.conn].conversation_quality_score
                /\ connections'[r.conn].mutual_avatar_evolution
                      = connections[r.conn].mutual_avatar_evolution
          /\ ( /\ Answered(r, "viewUser")
               /\ Records("last") /\ Records("now")
               /\ hist.last.user = r.user /\ hist.last.conn = hist.now )
             => users'[r.user].avatar_evolution = users[r.user].avatar_evolution
      ]_vars

\* user 2 viewed twice in a row a connection holding three messages, and
\* holds 0.75 from it
C12_Witness ==
    /\ Records("last")
    /\ hist.last = [user |-> 2, conn |-> 1, times |-> 2]
    /\ Len(MessagesOf(1)) = 3
    /\ connections[1].mutual_avatar_evolution = 75
    /\ users[2].avatar_evolution = 75
    /\ reqs = EmptyBag

\* C13: an avatar is rendered evolved exactly when its evolution value is above
\* 0.3 (0.30 itself renders neutral); the deepening notice is rendered exactly
\* when the value is above 0.5; the notice never shows beside a neutral avatar.
C13_PresentationThresholds ==
    Returned("render") =>
        LET h == fcall.args[1]
        IN  /\ fret[1] = (h > 30)
            /\ fret[2] = (h > 50)
            /\ fret[2] => fret[1]
            /\ h = 30 => fret[1] = FALSE

\* the value 0.30: neutral avatar, no notice
C13_Witness ==
    /\ Returned("render")
    /\ fcall.args[1] = 30
    /\ fret = <<FALSE, FALSE>>

\* a message with its defective fields replaced by the defaults
Defaulted(msg) ==
    [message_length |-> IF Has(msg, "message_length") /\ msg.message_length > 0
                        THEN msg.message_length ELSE 0,
     is_repetitive |-> IF Has(msg, "is_repetitive") THEN msg.is_repetitive ELSE FALSE]

\* the quality of a list of messages that have both fields, by the formula
ScoreOfWellFormed(msgs) ==
    LET valid == {i \in 1..Len(msgs) :
                     ~msgs[i].is_repetitive /\ msgs[i].message_length > 20}
        t == SumOver([i \in 1..Len(msgs) |-> Min2(msgs[i].message_length, 50)], valid)
    IN  IF valid = {} THEN Zero
        ELSE RatMin(Rat(2 * t, 100 * Cardinality(valid)), One)

\* C14: the scoring functions return a value on every input; a message with a
\* missing, zero or negative length counts as one of length 0, a message with
\* no repetitive flag as not repetitive; calculateAvatarEvolution takes a
\* missing message count or quality score as 0; the empty list scores 0.
C14_DefectiveFieldsDefault ==
    /\ Returned("quality") =>
          LET msgs == fcall.args[1]
          IN  /\ fret[1] = ScoreOfWellFormed([i \in 1..Len(msgs) |-> Defaulted(msgs[i])])
              /\ msgs = <<>> => fret[1] = Zero
    /\ Returned("evolution") =>
          \A k \in 1..2 :
              LET c == fcall.args[k]
                  q == IF Has(c, "conversation_quality_score")
                       THEN c.conversation_quality_score ELSE Zero
                  n == IF Has(c, "message_count") THEN c.message_count ELSE 0
              IN  fret[k] = RatMin(Rat(140 * q.num + 3 * Min2(n, 20) * q.den,
                                       200 * q.den), One)

\* a 50-character message without flag, a message without length and one of
\* negative length: the quality is that of the first alone
C14_Witness ==
    /\ Returned("quality")
    /\ fcall.args[1] = << [message_length |-> 50],
                          [is_repetitive |-> FALSE],
                          [message_length |-> -3, is_repetitive |-> FALSE] >>
    /\ fret[1] = One

\* C15: after a view of a connection, messages that are flagged repetitive or
\* have 20 characters or fewer do not raise the evolution the next view
\* computes for the connection (mutual_avatar_evolution), nor the stored
\* avatar_evolution of a viewer who viewed before them.
C15_LowEffortNoProgress ==
    [][ \A r \in Requests :
          /\ ( /\ Answered(r, "viewScores")
               /\ Records("low")
               /\ hist.low[r.conn].viewer # 0 /\ hist.low[r.conn].sent )
             => connections'[r.conn].mutual_avatar_evolution
                   <= connections[r.conn].mutual_avatar_evolution
          /\ ( /\ Answered(r, "viewUser")
               /\ Records("low") /\ Records("now")
               /\ hist.low[hist.now].viewer = r.user /\ hist.low[hist.now].sent )
             => users'[r.user].avatar_evolution <= users[r.user].avatar_evolution
      ]_vars

\* C16: an onboarding answer (name, age, gender, imperfection_1,
\* imperfection_2), once stored, is never changed by a later request.
C16_AnswersImmutable ==
    [][ \A u \in 1..Len(users) :
          /\ users[u].name # NULL => users'[u].name = users[u].name
          /\ users[u].age # NullInt => users'[u].age = users[u].age
          /\ users[u].gender # NULL => users'[u].gender = users[u].gender
          /\ users[u].imperfection_1 # NULL
                => users'[u].imperfection_1 = users[u].imperfection_1
          /\ users[u].imperfection_2 # NULL
                => users'[u].imperfection_2 = users[u].imperfection_2
      ]_vars

\* C17: a user with onboarding_complete = true has name, age, gender,
\* imperfection_1 and imperfection_2 stored.
C17_CompleteMeansAllAnswered ==
    \A u \in 1..Len(users) :
        users[u].onboarding_complete =>
            /\ users[u].name # NULL
            /\ users[u].age # NullInt
            /\ users[u].gender # NULL
            /\ users[u].imperfection_1 # NULL
            /\ users[u].imperfection_2 # NULL

\* C19: no two users have the same email after lower-casing; a registration
\* of an email that is stored, in whatever letter case it was typed, creates
\* no user and sets no session; of registrations of one email running at the
\* same time only one creates a user.
C19_EmailsUnique ==
    [][ /\ \A u, v \in 1..Len(users') :
              u # v => toLowerCase(users'[u].email) # toLowerCase(users'[v].email)
        /\ Len(users') # Len(users) =>
              \E r \in Requests :
                  /\ Answered(r, "registerInsert")
                  /\ Len(users') = Len(users) + 1
                  /\ users'[Len(users')].email = r.email
                  /\ \A u \in 1..Len(users) :
                        toLowerCase(users[u].email) # toLowerCase(r.email)
        /\ \A r \in Requests :
              ( /\ Answered(r, "registerInsert")
                /\ \E u \in 1..Len(users) :
                      toLowerCase(users[u].email) = toLowerCase(r.email) )
              => users' = users /\ session' = session
      ]_vars

\* a@b.c is registered while a registration typed as A@B.c, which passed the
\* SELECT before, is about to insert
C19_Witness ==
    /\ Len(users) = 1
    /\ users[1].email = EmailA
    /\ session[1] = 1
    /\ \E r \in Requests : r.pc = "registerInsert" /\ r.email = EmailA /\ r.client = 1

\* a request record that this step puts in flight
Admitted(rec) == CopiesIn(rec, reqs') > CopiesIn(rec, reqs)

\* user u is the session user of some client and has completed onboarding
PassesGate(u) ==
    /\ u \in 1..Len(users)
    /\ users[u].onboarding_complete
    /\ \E c \in Clients : session[c] = u

\* this step leaves the stored data of the gated routes as it is
DataUnchanged ==
    /\ UNCHANGED <<profile_views, connections, messages>>
    /\ Len(users') = Len(users)
    /\ \A u \in 1..Len(users) : users'[u].avatar_evolution = users[u].avatar_evolution

\* the gate: a handler behind it starts only for a session user who completed
\* onboarding; the stored data changes only in the steps of such handlers; a
\* request the middleware answers is redirected to /login (no session user)
\* or /onboarding/step-1 (onboarding not complete) and changes nothing
GateKept ==
    /\ \A rec \in BagToSet(reqs') :
          (Admitted(rec) /\ rec.pc \in {"startInsert", "viewMessages", "sendInsert"})
             => PassesGate(rec.user)
    /\ \A v \in profile_views' \ profile_views :
          \/ PassesGate(v.viewer_id) /\ reqs' = reqs
          \/ \E r \in Requests : Answered(r, "startViews")
    /\ ~DataUnchanged =>
          \/ \E r \in Requests :
                /\ r.pc \in {"startInsert", "startViews", "viewScores", "viewUser",
                              "sendInsert", "sendCount", "sendState", "registerInsert"}
                /\ Answered(r, r.pc)
          \/ /\ profile_views' # profile_views
             /\ UNCHANGED <<users, connections, messages>>
    /\ \A rec \in BagToSet(reqs') :
          (Admitted(rec) /\ rec.pc = "respond") =>
             /\ DataUnchanged
             /\ session[rec.client] = 0
                   => rec.status = 401 /\ rec.location = [path |-> "/login"]
             /\ ( /\ session[rec.client] \in 1..Len(users)
                  /\ ~users[session[rec.client]].onboarding_complete )
                   => rec.location = [path |-> "/onboarding/step-1"]

\* the session of client c receives its user from a login with that user's password
ByLogin(c) ==
    \E r \in Requests :
        /\ Answered(r, "loginCompare")
        /\ r.client = c /\ r.id = session'[c]
        /\ r.id \in 1..Len(users)
        /\ bcryptHash(r.password) = users[r.id].password_hash

\* the session of client c receives the user that this step registers
ByRegistration(c) ==
    \E r \in Requests :
        /\ Answered(r, "registerInsert")
        /\ r.client = c
        /\ Len(users') = Len(users) + 1
        /\ session'[c] = Len(users')

\* C20 as stated: the gate holds, and after a logout the session carries no
\* user until a login with the correct password succeeds.
C20_SessionByLoginOnly ==
    [][ /\ GateKept
        /\ Records("out") =>
              \A c \in hist.out :
                  /\ session[c] = 0
                  /\ session'[c] # 0 => ByLogin(c)
      ]_vars

\* C20: a request without a session user, or of a user whose onboarding is not
\* complete, records no profile view, creates no connection, reads no
\* conversation and stores no message; it is redirected to /login,
\* respectively /onboarding/step-1, and leaves profile_views, connections,
\* messages and every avatar_evolution unchanged.  After a logout the session
\* carries no user until a login with the correct password, or the
\* registration of a new account, succeeds.
C20_AccessGate ==
    [][ /\ GateKept
        /\ Records("out") =>
              \A c \in hist.out :
                  /\ session[c] = 0
                  /\ session'[c] # 0 => (ByLogin(c) \/ ByRegistration(c))
      ]_vars

\* user 1 started a conversation with user 2, who has not completed
\* onboarding and whose POST of a message is being redirected to step 1;
\* client 1 has logged out since
C20_Witness ==
    /\ Len(connections) = 1 /\ messages = <<>>
    /\ session[2] = 2 /\ ~users[2].onboarding_complete
    /\ Records("out") /\ 1 \in hist.out
    /\ \E r \in Requests :
          /\ r.pc = "respond" /\ r.client = 2
          /\ r.route = "POST /connection/message"
          /\ r.location = [path |-> "/onboarding/step-1"]

\* user u is user1 or user2 of the stored connection k
Participant(u, k) ==
    /\ k \in 1..Len(connections)
    /\ u \in {connections[k].user1_id, connections[k].user2_id}

\* C18: a view or a send starts only for user1 or user2 of the connection; a
\* request by anyone else is answered 403 with a redirect to / and changes no
\* message, no connection and no user; a connection and its messages change
\* only in the steps of a request admitted for it; every message was sent by
\* a participant, and a user who is part of no connection keeps
\* avatar_evolution 0.
C18_ParticipantsOnly ==
    [][ /\ \A rec \in BagToSet(reqs') :
              (Admitted(rec) /\ rec.pc \in {"viewMessages", "sendInsert"})
                 => Participant(rec.user, rec.conn)
        /\ \A rec \in BagToSet(reqs') :
              (Admitted(rec) /\ rec.pc = "respond" /\ rec.status = 403) =>
                 /\ rec.location = [path |-> "/"]
                 /\ UNCHANGED <<users, connections, messages>>
        /\ \A k \in 1..Len(connections) :
              (connections'[k] # connections[k] \/ MessagesOf(k)' # MessagesOf(k)) =>
                 \E r \in Requests :
                     /\ r.pc \in {"viewScores", "sendInsert", "sendCount", "sendState"}
                     /\ Answered(r, r.pc)
                     /\ r.conn = k
        /\ \A i \in 1..Len(messages') :
              messages'[i].sender_id
                 \in {connections'[messages'[i].connection_id].user1_id,
                      connections'[messages'[i].connection_id].user2_id}
        /\ \A u \in 1..Len(users') :
              users'[u].avatar_evolution # 0 =>
                 \E k \in 1..Len(connections') :
                     u \in {connections'[k].user1_id, connections'[k].user2_id}
      ]_vars

\* user 3, logged in at client 2, posts to connection 1 of users 1 and 2, which
\* holds a message and its scores; the answer 403 is on its way
C18_Witness ==
    /\ Len(users) = 3 /\ session[2] = 3
    /\ Len(MessagesOf(1)) = 1
    /\ connections[1].conversation_quality_score = 100
    /\ users[3].avatar_evolution = 0
    /\ \E r \in Requests :
          /\ r.pc = "respond" /\ r.client = 2 /\ r.status = 403
          /\ r.route = "POST /connection/message"

\* C21: every connection has user1_id < user2_id and no two connections join
\* the same two users; a start-conversation request goes on to the INSERT only
\* for another user with whom no connection exists in either order, and with
\* (min id, max id); the table changes only by one appended row for such a
\* request, also when requests for the same pair overlap.
C21_OneConnectionPerPair ==
    [][ /\ \A rec \in BagToSet(reqs') :
              (Admitted(rec) /\ rec.pc = "startInsert") =>
                 /\ rec.user # rec.otherUserId
                 /\ ConnectionBetween(rec.user, rec.otherUserId) = {}
                 /\ rec.user1Id = Min2(rec.user, rec.otherUserId)
                 /\ rec.user2Id = Max2(rec.user, rec.otherUserId)
        /\ connections' # connections =>
              \E r \in Requests :
                 /\ r.pc = "startInsert"
                 /\ Answered(r, "startInsert")
                 /\ Len(connections') = Len(connections) + 1
                 /\ SubSeq(connections', 1, Len(connections)) = connections
                 /\ connections'[Len(connections')].user1_id = Min2(r.user, r.otherUserId)
                 /\ connections'[Len(connections')].user2_id = Max2(r.user, r.otherUserId)
        /\ \A k \in 1..Len(connections') :
              connections'[k].user1_id < connections'[k].user2_id
        /\ \A k, j \in 1..Len(connections') :
              {connections'[k].user1_id, connections'[k].user2_id}
                 = {connections'[j].user1_id, connections'[j].user2_id} => k = j
      ]_vars

\* the connection of users 1 and 2 is stored while another request that found
\* none is about to insert the same pair, and a second connection exists
C21_Witness ==
    /\ Len(connections) = 2
    /\ \E r \in Requests :
          /\ r.pc = "startInsert"
          /\ ConnectionBetween(r.user, r.otherUserId) # {}

\* C22: a stored message row never changes and is never removed: at every
\* step the table messages keeps its rows (text, length, is_repetitive,
\* sender, connection) in place and at most appends one row, whether the step
\* belongs to a send or to a view.
C22_MessagesAppendOnly ==
    [][ /\ Len(messages') \in {Len(messages), Len(messages) + 1}
        /\ \A i \in 1..Len(messages) : messages'[i] = messages[i]
        /\ Len(messages') = Len(messages) + 1 =>
              \E r \in Requests : Answered(r, "sendInsert")
      ]_vars

\* three messages of the same text, the first stored unflagged and the third
\* flagged as a duplicate, and a view of the connection completed afterwards
C22_Witness ==
    /\ Len(messages) = 3
    /\ messages[1].message_text = messages[3].message_text
    /\ ~messages[1].is_repetitive
    /\ messages[3].is_repetitive
    /\ hist.last.conn = 1
    /\ reqs = EmptyBag

\* C23: the home page suggests nothing or one user, who is not the viewer,
\* has onboarding_complete and active true, has no profile_views row from the
\* viewer and no connection with the viewer in either order; the row of an
\* opened profile is stored and rows are never removed, so that a profile the
\* viewer has opened is not suggested to that viewer again.
C23_NextProfileEligible ==
    [][ /\ \A rec \in BagToSet(reqs') :
              (Admitted(rec) /\ rec.pc = "respond" /\ rec.route = "GET /") =>
                 /\ Cardinality(rec.nextProfile) <= 1
                 /\ \A u \in rec.nextProfile :
                       /\ u \in 1..Len(users)
                       /\ u # rec.viewer
                       /\ users[u].onboarding_complete
                       /\ users[u].active
                       /\ [viewer_id |-> rec.viewer, viewed_id |-> u]
                             \notin {[viewer_id |-> v.viewer_id, viewed_id |-> v.viewed_id] :
                                         v \in profile_views}
                       /\ ConnectionBetween(rec.viewer, u) = {}
                       /\ <<rec.viewer, u>> \notin hist.opened
        /\ \A v \in profile_views :
              \E w \in profile_views' :
                 w.viewer_id = v.viewer_id /\ w.viewed_id = v.viewed_id
        /\ \A o \in hist.opened' :
              \E w \in profile_views' : w.viewer_id = o[1] /\ w.viewed_id = o[2]
      ]_vars

\* user 1 opened the profile of user 2, with whom there is no connection, and
\* the home page now suggests user 3 to user 1
C23_Witness ==
    /\ <<1, 2>> \in hist.opened
    /\ ConnectionBetween(1, 2) = {}
    /\ \E r \in Requests :
          /\ r.pc = "respond" /\ r.route = "GET /"
          /\ r.viewer = 1 /\ r.nextProfile = {3}

\* C24: a skip is answered with a redirect to / and changes no row of users,
\* profile_views, connections or messages and no session; the users that
\* getNextProfileToView can suggest to any viewer are the same after it.
C24_SkipChangesNothing ==
    [][ \A rec \in BagToSet(reqs') :
           (Admitted(rec) /\ rec.pc = "respond" /\ rec.route = "GET /skip-profile") =>
              /\ rec.location = [path |-> "/"]
              /\ UNCHANGED <<users, session, connections, messages, profile_views>>
              /\ \A v \in 1..Len(users) : NextProfileRows(v)' = NextProfileRows(v)
      ]_vars

\* user 1 skipped user 3, and the home page suggests user 3 to user 1
C24_Witness ==
    /\ <<1, 3>> \in hist.skipped
    /\ \E r \in Requests :
          /\ r.pc = "respond" /\ r.route = "GET /"
          /\ r.viewer = 1 /\ r.nextProfile = {3}

\* the sends of connection k that stored their message and have not yet
\* updated the counter
CountPending(k) ==
    BagCardinality([q \in {q \in Requests : q.pc = "sendCount" /\ q.conn = k}
                       |-> CopiesIn(q, reqs)])

\* C25: with no send in flight and no failed UPDATE, message_count is the
\* number of messages stored for the connection; in general the stored
\* messages are those counted, those whose counter UPDATE is still to come and
\* those whose counter UPDATE failed, which stay stored and uncounted.
C25_CountMatchesMessages ==
    \A k \in 1..Len(connections) :
       /\ (InFlight({"sendInsert", "sendCount", "sendState"}) = 0 /\ hist.failed[k] = 0)
             => connections[k].message_count = Len(MessagesOf(k))
       /\ connections[k].message_count + CountPending(k) + hist.failed[k]
             = Len(MessagesOf(k))

\* nothing in flight; two messages stored, the UPDATE of one send failed, and
\* message_count is 1
C25_Witness ==
    /\ reqs = EmptyBag
    /\ hist.failed[1] = 1
    /\ Len(MessagesOf(1)) = 2
    /\ connections[1].message_count = 1
    /\ connections[1].conversation_quality_score = 100

\* C26: the conversation page shows the evolved avatar exactly when the
\* mutual_avatar_evolution stored at the start of the request was above 0.30,
\* and the notice exactly when it was above 0.50, whatever the request itself
\* stores; the stored value changes only in the UPDATE of a view, so what the
\* page shows is what the previous view stored, and a view that found at most
\* 0.30 (0.50) and stored more renders the neutral avatar (no notice).
C26_PageFromValueAtStart ==
    [][ /\ \A r \in Requests :
              Answered(r, "viewUser") =>
                 /\ hist'.page.user = r.user
                 /\ hist'.page.evolved = (hist.atStart > 30)
                 /\ hist'.page.deepening = (hist.atStart > 50)
                 /\ (hist.atStart <= 30 /\ connections[hist.now].mutual_avatar_evolution > 30)
                       => ~hist'.page.evolved
                 /\ (hist.atStart <= 50 /\ connections[hist.now].mutual_avatar_evolution > 50)
                       => ~hist'.page.deepening
        /\ \A k \in 1..Len(connections) :
              connections'[k].mutual_avatar_evolution # connections[k].mutual_avatar_evolution
                 => \E r \in Requests : Answered(r, "viewScores") /\ r.conn = k
      ]_vars

\* user 1's view found 0.00 stored, stored more than 0.50 and rendered the
\* neutral avatar without the notice
C26_Witness ==
    /\ reqs = EmptyBag
    /\ hist.atStart = 0
    /\ connections[1].mutual_avatar_evolution > 50
    /\ hist.page = [user |-> 1, evolved |-> FALSE, deepening |-> FALSE]

\* C27: the UPDATE of users in a view changes the avatar_evolution of the
\* requesting user at most: every other user's value is the same after the
\* step, and a user's value changes only in the step of a view of that user.
C27_OnlyTheViewer ==
    [][ /\ \A r \in Requests :
              Answered(r, "viewUser") =>
                 \A u \in 1..Len(users) :
                    u # r.user => users'[u].avatar_evolution = users[u].avatar_evolution
        /\ \A u \in 1..Len(users) :
              users'[u].avatar_evolution # users[u].avatar_evolution =>
                 \E r \in Requests : Answered(r, "viewUser") /\ r.user = u
      ]_vars

\* the two partners of connection 1 hold different values: user 1 viewed the
\* conversation and user 2 has not
C27_Witness ==
    /\ reqs = EmptyBag
    /\ connections[1].user1_id = 1 /\ connections[1].user2_id = 2
    /\ users[1].avatar_evolution > 0
    /\ users[2].avatar_evolution = 0

\* min(quality * 0.7 + min(count / 20, 1) * 0.3, 1) of the stored messages and
\* message_count of connection k, in hundredths rounded half up
FreshEvolution(k) ==
    LET q == calculateConversationQuality(MessagesOf(k))
        vol == Min2(connections[k].message_count, 20)
        sumNum == 140 * q.num + 3 * vol * q.den
    IN  IF sumNum >= 200 * q.den THEN 100
        ELSE (sumNum + q.den) \div (2 * q.den)

\* C28: the UPDATE of a view stores the evolution computed from the messages
\* and the count as they are, whatever value was stored before, so that the
\* stored value is lower than before when the computed one is.
C28_ConnectionEvolutionOverwritten ==
    [][ \A r \in Requests :
           Answered(r, "viewScores") =>
              /\ connections'[r.conn].mutual_avatar_evolution = FreshEvolution(r.conn)
              /\ FreshEvolution(r.conn) < connections[r.conn].mutual_avatar_evolution
                    => connections'[r.conn].mutual_avatar_evolution
                          < connections[r.conn].mutual_avatar_evolution
      ]_vars

\* a 50-character message, a view (0.72), a 21-character message that is not
\* flagged, and user 1's second view has stored 0.53 while user 1 keeps 0.72
C28_Witness ==
    /\ Len(messages) = 2
    /\ messages[1].message_length = 50
    /\ messages[2].message_length = 21 /\ ~messages[2].is_repetitive
    /\ hist.atStart = 72
    /\ connections[1].mutual_avatar_evolution = 53
    /\ users[1].avatar_evolution = 72
    /\ \E r \in Requests : r.pc = "viewUser" /\ r.user = 1

====
